---- MODULE Spec2Model ----
(***************************************************************************)
(* ChatClient realtime core: the message ledger (server/src/store.js), the *)
(* socket.io room/presence/signaling handlers (server/src/index.js) and    *)
(* the client's optimistic message reducer (client App.tsx).               *)
(***************************************************************************)
EXTENDS Integers, Sequences, FiniteSets, TLC

\* ---------------------------------------------------------------- bounds
MaxSockets == 3      \* socket ids 1..MaxSockets, each connects at most once
MaxClock   == 4      \* the server clock advances at most to this value
MaxAppends == 2      \* addMessage calls explored per behaviour
MaxReady   == 2      \* p2p-ready events explored per behaviour
MaxSends   == 2      \* optimistic sends of the client explored per behaviour
MaxTyping  == 2      \* typing-start and typing-stop events explored per user
MaxVersion == 3      \* profile versions a user goes through (the first is 1)

\* ------------------------------------------------------ program constants
MAX_MESSAGES_PER_CHANNEL == 200

\* ------------------------------------------------------------ value sets
Sockets   == 1..MaxSockets
Users     == {"u1", "u2"}
UserOf(s) == IF s % 2 = 1 THEN "u1" ELSE "u2"   \* identity bound at the handshake

NoId      == 0            \* JS undefined/null for an id
NoTs      == 0            \* JS undefined for a timestamp (falsy)
NoRoom    == <<>>         \* socket.data.currentRoom = null
NoSocket  == 0
AttachmentIds == {"a1", "a2"}   \* the values nanoid() gives to uploads
\* no row of the attachments table has this id
NoUpload  == [uploader_id |-> "", message_id |-> NoId]

\* the channels seedInitialData inserts (storage.js): two channels of one server
ChannelTable == {<<"sv1", "c1">>, <<"sv1", "c2">>}
\* payload values a client can send: "" is a missing (falsy) field, "cX" an unknown channel
ServerIds  == {"sv1", ""}
ChannelIds == {"c1", "c2", "cX", ""}
Rooms      == ChannelTable
ClientIds  == {9001, 9002}          \* ids a client submits with store-message / REST

NullRow == [id |-> NoId, serverId |-> "", channelId |-> "", authorId |-> "",
            timestamp |-> NoTs, transport |-> ""]

VARIABLES
  rows,            \* messages table, in rowid (insertion) order
  now,             \* server clock, new Date().toISOString()
  nextId,          \* next value nanoid() returns
  appended,        \* history: per channel, ids inserted so far in insertion order
  addCount,        \* history: number of addMessage calls made
  uploads,         \* attachments table: per attachment id, its row (NoUpload: no row)
  servers,         \* servers table: the ids of its rows
  channels,        \* channels table: <<server_id, id>> of its rows
  userVersion,     \* userStore: per user, the version of the stored profile (0: no such row)
  sessions,        \* sessionStore: the users whose session token is live
  status,          \* per socket: "offline" | "refused" | "new" | "connected" | "disconnected"
  socketUser,      \* socket.data.user: the public user (its profile version) last loaded
  currentRoom,     \* socket.data.currentRoom
  ioRooms,         \* socket.io adapter: room -> sockets subscribed (socket.join/leave)
  channelMembers,  \* Map room -> Map userId -> Set socketId
  clients,         \* Map socketId -> member profile
  socketsByUser,   \* Map userId -> Set socketId
  out,             \* events emitted by the handler that ran last, in emission order
  last,            \* the event handled last
  joined,          \* history: per socket, the room it joined and has not left since
  initTrue,        \* history: <<recipient, peer>> -> number of p2p-init initiator=true sent
  readyCount,      \* history: number of p2p-ready events handled
  introduced,      \* history: per socket, the peers a p2p-init named to it in sessions still open
  messages,        \* per client: the reducer state, channel key -> message list
  outbox,          \* per client: server-message packets on their way to the server (FIFO)
  inbox,           \* per client: 'message' events and acks on their way to it (FIFO)
  sends,           \* history: the optimistic sends, with the id the server gave each
  typing,          \* history: per user, the number of typing events its clients sent and
                   \* the room of its latest typing-start if no typing-stop followed
  composer,        \* the MessageComposer of one client: its state, its refs and the
                   \* prop callbacks it has invoked so far
  useP2P           \* the useP2P hook of one client: its props, peersRef and the
                   \* SimplePeer instances created and not destroyed

ledgerVars == <<rows, now, nextId, appended, addCount, uploads, servers, channels>>
roomVars   == <<userVersion, sessions, status, socketUser, currentRoom, ioRooms, channelMembers,
               clients, socketsByUser>>
p2pVars    == <<initTrue, readyCount, introduced>>
clientVars == <<messages, outbox, inbox, sends, typing, composer, useP2P>>
vars == <<rows, now, nextId, appended, addCount, uploads, servers, channels, userVersion, sessions, status, socketUser,
          currentRoom, ioRooms,
          channelMembers, clients, socketsByUser, out, last, joined, initTrue,
          readyCount, introduced, messages, outbox, inbox, sends, typing, composer, useP2P>>

\* ------------------------------------------------------- sequence helpers
LastN(s, n) == IF Len(s) <= n THEN s ELSE SubSeq(s, Len(s) - n + 1, Len(s))

Reverse(s) == [i \in 1..Len(s) |-> s[Len(s) + 1 - i]]

FirstN(s, n) == IF Len(s) <= n THEN s ELSE SubSeq(s, 1, n)

\* ------------------------------------------------------------ the ledger
roomKey(serverId, channelId) == <<serverId, channelId>>

\* a plausible slip: the channel lookup left out
getChannelAny(serverId, channelId) == TRUE

\* Store.getChannel: channelByIdsStmt, server_id = ? AND id = ?
getChannel(serverId, channelId) == <<serverId, channelId>> \in channels

\* indices of the rows of a channel (WHERE channel_id = ?)
ChannelIdx(rws, channelId) == {i \in 1..Len(rws) : rws[i].channelId = channelId}

\* channelCountStmt: SELECT COUNT(*) FROM messages WHERE channel_id = ?
channelCount(rws, channelId) == Cardinality(ChannelIdx(rws, channelId))

\* ORDER BY timestamp ASC over idx_messages_channel(channel_id, timestamp): rows of
\* equal timestamp come in rowid order
TsBefore(rws, i, j) ==
  \/ rws[i].timestamp < rws[j].timestamp
  \/ rws[i].timestamp = rws[j].timestamp /\ i < j

RemoveAt(s, d) == [i \in 1..(Len(s) - 1) |-> IF i < d THEN s[i] ELSE s[i + 1]]

\* the row of the channel that ORDER BY timestamp ASC puts first
FirstByTimestamp(rws, channelId) ==
  LET idx == ChannelIdx(rws, channelId)
  IN CHOOSE i \in idx : \A j \in idx : i = j \/ TsBefore(rws, i, j)

\* pruneMessagesStmt: DELETE ... WHERE id IN (SELECT id ... WHERE channel_id = ?
\*                    ORDER BY timestamp ASC LIMIT ?)
RECURSIVE pruneMessages(_, _, _)
pruneMessages(rws, channelId, n) ==
  IF n = 0 \/ ChannelIdx(rws, channelId) = {} THEN rws
  ELSE pruneMessages(RemoveAt(rws, FirstByTimestamp(rws, channelId)), channelId, n - 1)

\* SELECT * FROM messages WHERE id = ?  (null when absent)
rowById(rws, id) ==
  IF \E i \in 1..Len(rws) : rws[i].id = id
  THEN rws[CHOOSE i \in 1..Len(rws) : rws[i].id = id]
  ELSE NullRow

\* mapMessageRow: null stays null, the id is carried over unchanged
mapMessageRow(row) == row

\* a plausible slip: the cap test is off by one
overCapOffByOne(currentCount) == currentCount > MAX_MESSAGES_PER_CHANNEL + 1

\* addMessage line 199: currentCount > MAX_MESSAGES_PER_CHANNEL
overCap(currentCount) == currentCount > MAX_MESSAGES_PER_CHANNEL

\* a plausible slip: one row too many is pruned
toDeleteOneMore(currentCount) == currentCount - MAX_MESSAGES_PER_CHANNEL + 1

\* addMessage line 200: toDelete = currentCount - MAX_MESSAGES_PER_CHANNEL
toDelete(currentCount) == currentCount - MAX_MESSAGES_PER_CHANNEL

\* Store.addMessage(serverId, channelId, message) on table rws at clock value clock,
\* fresh the value nanoid() would return.  message = [id, authorId, timestamp, transport].
\* Result: threw (Channel not found, or the PRIMARY KEY constraint failing, which rolls
\* the transaction back), the table afterwards, the returned message (NullRow for null),
\* and whether a row was inserted.
idTakenNever(rws, id) == FALSE

\* messages.id is the primary key: insertMessageStmt.run throws on an id that is stored
idTaken(rws, id) == \E i \in 1..Len(rws) : rws[i].id = id

addMessage(rws, clock, fresh, serverId, channelId, message) ==
  IF ~getChannel(serverId, channelId)
  THEN [threw |-> TRUE, rows |-> rws, message |-> NullRow, id |-> NoId]
  ELSE
    LET record == [id        |-> IF message.id # NoId THEN message.id ELSE fresh,
                   serverId  |-> serverId,
                   channelId |-> channelId,
                   authorId  |-> message.authorId,
                   timestamp |-> IF message.timestamp # NoTs THEN message.timestamp ELSE clock,
                   transport |-> IF message.transport # "" THEN message.transport ELSE "server"]
    IN IF idTaken(rws, record.id)
       THEN [threw |-> TRUE, rows |-> rws, message |-> NullRow, id |-> NoId]
       ELSE
         LET inserted     == Append(rws, record)
             currentCount == channelCount(inserted, channelId)
             after == IF overCap(currentCount)
                      THEN pruneMessages(inserted, channelId, toDelete(currentCount))
                      ELSE inserted
         IN [threw |-> FALSE, rows |-> after,
             message |-> mapMessageRow(rowById(after, record.id)), id |-> record.id]

\* ids of the rows of a channel, in rowid order
ChannelRowIds(rws, channelId) ==
  LET r == SelectSeq(rws, LAMBDA m : m.channelId = channelId)
  IN [i \in 1..Len(r) |-> r[i].id]

\* the smallest of a non-empty set of timestamps
MinOf(stamps) == CHOOSE x \in stamps : \A y \in stamps : x <= y

\* rowids of the rows of a channel that carry timestamp v, in rowid order: the
\* entries of idx_messages_channel(channel_id, timestamp) for one timestamp
StampRows(rws, serverId, channelId, v) ==
  SelectSeq([i \in 1..Len(rws) |-> i],
            LAMBDA i : /\ rws[i].serverId = serverId
                       /\ rws[i].channelId = channelId
                       /\ rws[i].timestamp = v)

\* the rowids of a channel in index order: ascending timestamp, rowid within a timestamp
RECURSIVE IndexOrder(_, _, _, _)
IndexOrderStep(rws, serverId, channelId, stamps, v) ==
  StampRows(rws, serverId, channelId, v)
    \o IndexOrder(rws, serverId, channelId, stamps \ {v})

IndexOrder(rws, serverId, channelId, stamps) ==
  IF stamps = {} THEN <<>>
  ELSE IndexOrderStep(rws, serverId, channelId, stamps, MinOf(stamps))

\* messagesForChannelStmt: SELECT * FROM messages WHERE server_id = ? AND channel_id = ?
\*                         ORDER BY timestamp DESC LIMIT ?
\* the index is walked backwards and the walk stops after rowLimit rows
messagesForChannelStmt(rws, serverId, channelId, rowLimit) ==
  FirstN(Reverse(IndexOrder(rws, serverId, channelId,
                            {rws[i].timestamp : i \in 1..Len(rws)})),
         rowLimit)

\* getMessages line 128: Math.max(1, Math.min(limit || MAX, MAX)); limit || MAX reads
\* 0 (and NaN, which parseInt gives for a text that is no number) as MAX
rowLimit(limit) ==
  IF limit = 0 THEN MAX_MESSAGES_PER_CHANNEL
  ELSE IF limit < 1 THEN 1
  ELSE IF limit < MAX_MESSAGES_PER_CHANNEL THEN limit ELSE MAX_MESSAGES_PER_CHANNEL

\* a plausible slip: rows.reverse() left out, the list comes newest first
getMessagesMappedNotReversed(rws, found) ==
  [i \in 1..Len(found) |-> mapMessageRow(rws[found[i]])]

\* rows.reverse().map(mapMessageRow) over the rowids the statement returned
getMessagesMapped(rws, found) ==
  [i \in 1..Len(found) |-> mapMessageRow(rws[found[Len(found) + 1 - i]])]

\* Store.getMessages(serverId, channelId, limit): no channel lookup, an unknown channel
\* has no rows and gives the empty list
getMessages(rws, serverId, channelId, limit) ==
  getMessagesMapped(rws, messagesForChannelStmt(rws, serverId, channelId, rowLimit(limit)))

\* ------------------------------------------ JS Map / Set, insertion ordered
\* a Map is a sequence of [k, v] entries, a Set a sequence without repetitions
Range(s) == {s[i] : i \in 1..Len(s)}
MapHas(m, k) == \E i \in 1..Len(m) : m[i].k = k
MapGet(m, k) == m[CHOOSE i \in 1..Len(m) : m[i].k = k].v
MapSet(m, k, v) ==
  IF MapHas(m, k)
  THEN [i \in 1..Len(m) |-> IF m[i].k = k THEN [k |-> k, v |-> v] ELSE m[i]]
  ELSE Append(m, [k |-> k, v |-> v])
MapDelete(m, k) == SelectSeq(m, LAMBDA e : e.k # k)
MapKeys(m) == {m[i].k : i \in 1..Len(m)}
SetHas(s, x) == x \in Range(s)
SetAdd(s, x) == IF SetHas(s, x) THEN s ELSE Append(s, x)
SetDelete(s, x) == SelectSeq(s, LAMBDA y : y # x)

\* ------------------------------------------------------ emitted events
Ev(ev, to) ==
  [ev |-> ev, to |-> to, room |-> NoRoom, user |-> "", peerId |-> NoSocket,
   from |-> NoSocket, initiator |-> FALSE, ok |-> FALSE, message |-> NullRow,
   tempId |-> NoId, error |-> "", reason |-> "", members |-> <<>>,
   alreadyJoined |-> FALSE, type |-> "", list |-> <<>>]

Ack(s, ack, e) == IF ack THEN <<e>> ELSE <<>>

\* no typing-start is pending
NoTyping == [n |-> 0, room |-> NoRoom]

NullProfile == [socketId |-> NoSocket, userId |-> "", version |-> 0]

\* ------------------------------------------------- server state, threaded
\* The helpers below take and return the server's in-memory state as a record
\* st = [status, socketUser, currentRoom, ioRooms, channelMembers, clients, socketsByUser].
ServerState ==
  [status |-> status, socketUser |-> socketUser, currentRoom |-> currentRoom,
   ioRooms |-> ioRooms, channelMembers |-> channelMembers, clients |-> clients,
   socketsByUser |-> socketsByUser]

\* a plausible slip: the user is looked up through its session, so that a user whose
\* session has ended is not found
findByIdWithSession(userId) ==
  userId \in Users /\ userVersion[userId] # 0 /\ userId \in sessions

\* userStore.findById: SELECT * FROM users WHERE id = ?  (null when there is no row)
findById(userId) == userId \in Users /\ userVersion[userId] # 0

\* buildMemberFromUser(publicUser, socketId)
buildMemberFromUser(userId, version, socketId) ==
  [socketId |-> socketId, userId |-> userId, version |-> version]

\* refreshSocketProfile(socket): result [st, profile]
refreshSocketProfile(st, s) ==
  LET userId == UserOf(s)
  IN IF ~findById(userId) THEN [st |-> st, profile |-> NullProfile]
     ELSE
       LET version == userVersion[userId]
           socketSet == IF MapHas(st.socketsByUser, userId)
                        THEN MapGet(st.socketsByUser, userId) ELSE <<>>
           profile == buildMemberFromUser(userId, version, s)
       IN [st |-> [st EXCEPT !.socketUser[s] = version,
                             !.socketsByUser = MapSet(@, userId, SetAdd(socketSet, s)),
                             !.clients = MapSet(@, s, profile)],
           profile |-> profile]

\* getMemberProfile(socketId): result [st, profile]
getMemberProfile(st, socketId) ==
  IF MapHas(st.clients, socketId)
  THEN [st |-> st, profile |-> MapGet(st.clients, socketId)]
  ELSE IF st.status[socketId] # "connected"     \* io.sockets.sockets.get(socketId)
       THEN [st |-> st, profile |-> NullProfile]
       ELSE refreshSocketProfile(st, socketId)

\* ensureRoomMap(room)
ensureRoomMap(cm, room) == IF MapHas(cm, room) THEN cm ELSE MapSet(cm, room, <<>>)

\* listRoomSocketIds(room)
RECURSIVE FlattenSets(_, _)
FlattenSets(membership, i) ==
  IF i > Len(membership) THEN <<>>
  ELSE membership[i].v \o FlattenSets(membership, i + 1)

listRoomSocketIds(cm, room) ==
  IF ~MapHas(cm, room) THEN <<>> ELSE FlattenSets(MapGet(cm, room), 1)

\* Handlers return [st, out]: the state they leave and the events they emitted.
\* A handler that calls another is written in stages, each stage taking the callee's
\* result as its argument.
Then(outBefore, r) == [st |-> r.st, out |-> outBefore \o r.out]

\* getPresenceMembers, inner loop: the first socket of the set with a profile
RECURSIVE FirstMember(_, _, _)
\* a plausible slip: the loop has no break, so the last connection's profile is taken
FirstMemberStepNoBreak(r, socketIds, i) ==
  IF FirstMember(r.st, socketIds, i + 1).profile # NullProfile
  THEN FirstMember(r.st, socketIds, i + 1) ELSE r

\* lines 484-489: the loop over the user's sockets stops at the first profile
FirstMemberStep(r, socketIds, i) ==
  IF r.profile # NullProfile THEN r ELSE FirstMember(r.st, socketIds, i + 1)

FirstMember(st, socketIds, i) ==
  IF i > Len(socketIds) THEN [st |-> st, profile |-> NullProfile]
  ELSE FirstMemberStep(getMemberProfile(st, socketIds[i]), socketIds, i)

\* getPresenceMembers, outer loop over the membership Map: result [st, members]
RECURSIVE PresenceLoop(_, _, _)
PresenceCons(member, rest) ==
  [st |-> rest.st,
   members |-> (IF member # NullProfile THEN <<member>> ELSE <<>>) \o rest.members]

\* lines 490-498: the member of one user, with the fallback built from the user store
PresenceStep(r, membership, i) ==
  PresenceCons(
    IF r.profile # NullProfile THEN r.profile
    ELSE IF findById(membership[i].k)
         THEN buildMemberFromUser(membership[i].k, userVersion[membership[i].k],
                IF Len(membership[i].v) > 0 THEN membership[i].v[1] ELSE NoSocket)
         ELSE NullProfile,
    PresenceLoop(r.st, membership, i + 1))

PresenceLoop(st, membership, i) ==
  IF i > Len(membership) THEN [st |-> st, members |-> <<>>]
  ELSE PresenceStep(FirstMember(st, membership[i].v, 1), membership, i)

\* a plausible slip: one entry per connection of the room
getPresenceMembersPerSocket(st, room) ==
  [st |-> st,
   members |-> LET ids == SelectSeq(listRoomSocketIds(st.channelMembers, room),
                                    LAMBDA x : MapHas(st.clients, x))
               IN [i \in 1..Len(ids) |-> MapGet(st.clients, ids[i])]]

getPresenceMembers(st, room) ==
  IF ~MapHas(st.channelMembers, room) THEN [st |-> st, members |-> <<>>]
  ELSE PresenceLoop(st, MapGet(st.channelMembers, room), 1)

\* emitPresence(room): io.to(room).emit('presence-update', {room, members})
PresenceEvent(p, room) ==
  [st |-> p.st,
   out |-> <<[Ev("presence-update", p.st.ioRooms[room]) EXCEPT
                !.room = room, !.members = p.members]>>]

\* a plausible slip: the snapshot is computed and never sent
emitPresenceNothing(st, room) == [st |-> getPresenceMembers(st, room).st, out |-> <<>>]

\* emitPresence(room)
emitPresence(st, room) == PresenceEvent(getPresenceMembers(st, room), room)

\* a plausible slip: the leave announcement was copied from the join and kept its type
broadcastChannelEventJoined(st, room, type, profile, reason) ==
  [Ev("channel-event", st.ioRooms[room]) EXCEPT
     !.room = room, !.type = "user-joined", !.user = profile.userId, !.reason = reason]

\* broadcastChannelEvent(room, payload)
broadcastChannelEvent(st, room, type, profile, reason) ==
  [Ev("channel-event", st.ioRooms[room]) EXCEPT
     !.room = room, !.type = type, !.user = profile.userId, !.reason = reason]

\* ------------------------------------------------------------ leaveRoom
\* a plausible slip: report the user as gone whenever one of its sockets leaves
userLeftAlways(sockets) == TRUE

\* leaveRoom line 523: sockets.size === 0 after the delete
userLeftNow(sockets) == Len(sockets) = 0

\* a plausible slip: drop the user's whole entry when one of its sockets leaves
membershipAfterLeaveDropUser(membership, userId, s) == MapDelete(membership, userId)

\* leaveRoom lines 519-527: delete the socket from the user's set, and the user's
\* entry when the set became empty
membershipAfterLeave(membership, userId, s) ==
  IF ~MapHas(membership, userId) THEN membership
  ELSE IF Len(SetDelete(MapGet(membership, userId), s)) = 0
       THEN MapDelete(membership, userId)
       ELSE MapSet(membership, userId, SetDelete(MapGet(membership, userId), s))

\* a plausible slip: the room's Map is kept when its last user has left
channelMembersAfterLeaveKeepsRoom(cm, room, membership2) == MapSet(cm, room, membership2)

\* leaveRoom lines 528-530: a room whose membership became empty is deleted
channelMembersAfterLeave(cm, room, membership2) ==
  IF Len(membership2) = 0 THEN MapDelete(cm, room) ELSE MapSet(cm, room, membership2)

\* a plausible slip: the teardown is sent inside the if (userLeft) block
leaveTeardownToIfUserLeft(ioRoom, s, userLeft) == IF userLeft THEN ioRoom \ {s} ELSE {}

\* leaveRoom line 540: socket.to(currentRoom), every socket of the room but the sender
leaveTeardownTo(ioRoom, s, userLeft) == ioRoom \ {s}

\* leaveRoom lines 532-543, g the result of getMemberProfile(socket.id)
leaveRoomEmit(g, s, room, userLeft, reason) ==
  Then((IF userLeft /\ g.profile # NullProfile
        THEN <<broadcastChannelEvent(g.st, room, "user-left", g.profile, reason)>>
        ELSE <<>>)
       \o <<[Ev("p2p-teardown", leaveTeardownTo(g.st.ioRooms[room], s, userLeft)) EXCEPT
               !.room = room, !.peerId = s]>>,
       emitPresence([g.st EXCEPT !.currentRoom[s] = NoRoom], room))

\* leaveRoom lines 517-531, st1 the state after socket.leave(currentRoom)
leaveRoomMembership(st1, s, room, reason) ==
  IF ~MapHas(st1.channelMembers, room)
  THEN leaveRoomEmit(getMemberProfile(st1, s), s, room, FALSE, reason)
  ELSE leaveRoomEmit(
         getMemberProfile(
           [st1 EXCEPT !.channelMembers =
              channelMembersAfterLeave(@, room,
                membershipAfterLeave(MapGet(st1.channelMembers, room), UserOf(s), s))], s),
         s, room,
         /\ MapHas(MapGet(st1.channelMembers, room), UserOf(s))
         /\ userLeftNow(SetDelete(MapGet(MapGet(st1.channelMembers, room), UserOf(s)), s)),
         reason)

\* a plausible slip: the teardown is sent although the socket has no room
leaveNoRoomTeardown(st, s) ==
  [st |-> st, out |-> <<[Ev("p2p-teardown", {t \in Sockets : t # s}) EXCEPT !.peerId = s]>>]

\* leaveRoom lines 512-515: if (!currentRoom) return
leaveNoRoom(st, s) == [st |-> st, out |-> <<>>]

\* leaveRoom(socket, reason): result [st, out]
leaveRoom(st, s, reason) ==
  IF st.currentRoom[s] = NoRoom THEN leaveNoRoom(st, s)
  ELSE leaveRoomMembership([st EXCEPT !.ioRooms[st.currentRoom[s]] = @ \ {s}],
                           s, st.currentRoom[s], reason)

\* ------------------------------------------------------- disconnect handler
\* a plausible slip: the profile of the socket is left in clients
disconnectCleanupKeepsClient(l, s) ==
  [st |-> [l.st EXCEPT
             !.socketsByUser =
                IF ~MapHas(@, UserOf(s)) THEN @
                ELSE IF Len(SetDelete(MapGet(@, UserOf(s)), s)) = 0
                     THEN MapDelete(@, UserOf(s))
                     ELSE MapSet(@, UserOf(s), SetDelete(MapGet(@, UserOf(s)), s))],
   out |-> l.out]

\* disconnect lines 758-766, l the result of leaveRoom
disconnectCleanup(l, s) ==
  [st |-> [l.st EXCEPT
             !.clients = MapDelete(@, s),
             !.socketsByUser =
                IF ~MapHas(@, UserOf(s)) THEN @
                ELSE IF Len(SetDelete(MapGet(@, UserOf(s)), s)) = 0
                     THEN MapDelete(@, UserOf(s))
                     ELSE MapSet(@, UserOf(s), SetDelete(MapGet(@, UserOf(s)), s))],
   out |-> l.out]

\* socket.on('disconnect'): socket.io has already removed the socket from its rooms
\* and from io.sockets.sockets when the event is emitted
disconnectHandler(st, s) ==
  disconnectCleanup(
    leaveRoom([st EXCEPT !.status[s] = "disconnected",
                         !.ioRooms = [r \in Rooms |-> @[r] \ {s}]],
              s, "disconnected"),
    s)

\* ------------------------------------------------------ join-channel handler
\* a plausible slip: every join announces the user
firstJoinAlways(hasSet, socketSet) == TRUE

\* join-channel line 600: !socketSet || socketSet.size === 0
firstJoin(hasSet, socketSet) == ~hasSet \/ Len(socketSet) = 0

\* a plausible slip: the previous room is not left on a room switch
leaveBeforeJoinSkipped(st, s) == [st |-> st, out |-> <<>>]

\* join-channel line 590: leaveRoom(socket, 'moved')
leaveBeforeJoin(st, s) == leaveRoom(st, s, "moved")

\* join-channel lines 584-586 and 619-621: the ack carries the presence snapshot
joinAck(p, s, already) ==
  [st |-> p.st,
   out |-> <<[Ev("ack", {s}) EXCEPT !.ok = TRUE, !.alreadyJoined = already,
                                    !.members = p.members]>>]

\* join-channel lines 617-621, pres the result of emitPresence(room)
joinFinish(pres, s, room, ack) ==
  IF ack THEN Then(pres.out, joinAck(getPresenceMembers(pres.st, room), s, FALSE))
  ELSE pres

\* join-channel lines 609-617, g the result of getMemberProfile(socket.id)
joinAnnounce(g, s, room, first, ack) ==
  Then(IF first /\ g.profile # NullProfile
       THEN <<broadcastChannelEvent(g.st, room, "user-joined", g.profile, "")>>
       ELSE <<>>,
       joinFinish(emitPresence(g.st, room), s, room, ack))

\* the user's socket set in the room's membership Map, <<>> when it has none
socketSetOf(cm1, room, userId) ==
  IF MapHas(MapGet(cm1, room), userId) THEN MapGet(MapGet(cm1, room), userId) ELSE <<>>

\* join-channel lines 592-607, cm1 the membership table after ensureRoomMap(room);
\* socket.data.user is set at the handshake, so line 594 never rejects
joinAdd(st, cm1, s, room, ack) ==
  joinAnnounce(
    getMemberProfile(
      [st EXCEPT
         !.ioRooms[room] = @ \cup {s},
         !.channelMembers =
            MapSet(cm1, room,
                   MapSet(MapGet(cm1, room), UserOf(s),
                          SetAdd(socketSetOf(cm1, room, UserOf(s)), s))),
         !.currentRoom[s] = room], s),
    s, room,
    firstJoin(MapHas(MapGet(cm1, room), UserOf(s)), socketSetOf(cm1, room, UserOf(s))),
    ack)

\* join-channel lines 590-622, l the result of leaveRoom(socket, 'moved')
joinAfterLeave(l, s, room, ack) ==
  Then(l.out, joinAdd(l.st, ensureRoomMap(l.st.channelMembers, room), s, room, ack))

\* socket.on('join-channel'): result [st, out]
joinChannel(st, s, serverId, channelId, ack) ==
  IF serverId = "" \/ channelId = ""
  THEN [st |-> st,
        out |-> Ack(s, ack, [Ev("ack", {s}) EXCEPT !.error = "Server and channel are required"])]
  ELSE IF ~getChannel(serverId, channelId)
  THEN [st |-> st, out |-> Ack(s, ack, [Ev("ack", {s}) EXCEPT !.error = "Channel not found"])]
  ELSE IF st.currentRoom[s] = roomKey(serverId, channelId)
  THEN IF ack
       THEN joinAck(getPresenceMembers(st, roomKey(serverId, channelId)), s, TRUE)
       ELSE [st |-> st, out |-> <<>>]
  ELSE joinAfterLeave(leaveBeforeJoin(st, s), s, roomKey(serverId, channelId), ack)

\* ------------------------------------------------------- handshake
\* io.use middleware for socket s, whose cookie (when it has one) carries the session
\* token of UserOf(s): result [status, sessions]; the handshake is refused without a
\* token, without a live session, and without the user, whose session is then deleted
authMiddleware(sess, s, hasCookie) ==
  IF ~hasCookie THEN [status |-> "refused", sessions |-> sess]
  ELSE IF UserOf(s) \notin sess THEN [status |-> "refused", sessions |-> sess]
  ELSE IF ~findById(UserOf(s))
  THEN [status |-> "refused", sessions |-> sess \ {UserOf(s)}]
  ELSE [status |-> "new", sessions |-> sess]

\* ---------------------------------------------------------- register handler
\* a plausible slip: the failure is acked but the socket is left connected
registerFailedStaysConnected(r, s, ack) ==
  [st |-> r.st,
   out |-> Ack(s, ack, [Ev("ack", {s}) EXCEPT !.error = "Unable to load profile"])]

\* register lines 559-563: the ack, then socket.disconnect(true), which runs the
\* disconnect listener
registerFailed(r, s, ack) ==
  Then(Ack(s, ack, [Ev("ack", {s}) EXCEPT !.error = "Unable to load profile"]),
       disconnectHandler(r.st, s))

\* register lines 559-567, r the result of refreshSocketProfile(socket)
registerAfterRefresh(r, s, ack) ==
  IF r.profile = NullProfile
  THEN registerFailed(r, s, ack)
  ELSE Then(Ack(s, ack, [Ev("ack", {s}) EXCEPT !.ok = TRUE, !.user = r.profile.userId]),
            IF r.st.currentRoom[s] # NoRoom
            THEN emitPresence(r.st, r.st.currentRoom[s])
            ELSE [st |-> r.st, out |-> <<>>])

\* socket.on('register')
registerHandler(st, s, ack) == registerAfterRefresh(refreshSocketProfile(st, s), s, ack)

\* connection lines 551-555, r the result of refreshSocketProfile(socket); on a null
\* profile socket.disconnect(true) runs before any listener of the socket is registered
connectionAfterRefresh(r, s) ==
  IF r.profile = NullProfile
  THEN [st |-> [r.st EXCEPT !.status[s] = "disconnected"], out |-> <<>>]
  ELSE [st |-> r.st, out |-> <<>>]

\* io.on('connection'): the handshake middleware has bound socket.data.user
connectionHandler(st, s) ==
  connectionAfterRefresh(
    refreshSocketProfile([st EXCEPT !.status[s] = "connected", !.currentRoom[s] = NoRoom,
                                    !.socketUser[s] = userVersion[UserOf(s)]], s),
    s)

\* ------------------------------------------------------------ signaling
\* a plausible slip: the existing peer is told it is not the initiator either
initiatorForPeerFalse == FALSE

\* p2p-ready line 722: the p2p-init sent to the existing peer
initiatorForPeer == TRUE

\* a plausible slip: the ready socket is told it is the initiator too
initiatorForSelfTrue == TRUE

\* p2p-ready line 728: the p2p-init sent to the socket that declared ready
initiatorForSelf == FALSE

\* peers.forEach of the p2p-ready handler: result [st, out]
RECURSIVE readyLoop(_, _, _, _, _, _)
\* p2p-ready lines 714-729, g the result of getMemberProfile(peerId)
readyStep(g, s, room, selfProfile, peers, i) ==
  IF g.profile = NullProfile THEN readyLoop(g.st, s, room, selfProfile, peers, i + 1)
  ELSE Then(<<[Ev("p2p-init", IF g.st.status[peers[i]] = "connected" THEN {peers[i]} ELSE {})
                 EXCEPT !.room = room, !.peerId = s, !.user = selfProfile.userId,
                        !.initiator = initiatorForPeer],
              [Ev("p2p-init", {s})
                 EXCEPT !.room = room, !.peerId = peers[i], !.user = g.profile.userId,
                        !.initiator = initiatorForSelf]>>,
            readyLoop(g.st, s, room, selfProfile, peers, i + 1))

readyLoop(st, s, room, selfProfile, peers, i) ==
  IF i > Len(peers) THEN [st |-> st, out |-> <<>>]
  ELSE readyStep(getMemberProfile(st, peers[i]), s, room, selfProfile, peers, i)

\* p2p-ready line 707: listRoomSocketIds(room).filter((id) => id !== socket.id)
readyPeers(cm, room, s) == SelectSeq(listRoomSocketIds(cm, room), LAMBDA id : id # s)

\* p2p-ready lines 708-730, g the result of getMemberProfile(socket.id)
readyAfterProfile(g, s, room) ==
  IF g.profile = NullProfile THEN [st |-> g.st, out |-> <<>>]
  ELSE readyLoop(g.st, s, room, g.profile, readyPeers(g.st.channelMembers, room, s), 1)

\* socket.on('p2p-ready'): result [st, out]
p2pReady(st, s, serverId, channelId) ==
  IF serverId = "" \/ channelId = "" THEN [st |-> st, out |-> <<>>]
  ELSE IF st.currentRoom[s] # roomKey(serverId, channelId) THEN [st |-> st, out |-> <<>>]
  ELSE readyAfterProfile(getMemberProfile(st, s), s, roomKey(serverId, channelId))

\* socket.on('p2p-signal'): target NoSocket and data FALSE are the missing fields
p2pSignal(st, s, target, data, serverId, channelId) ==
  IF target = NoSocket \/ ~data THEN <<>>
  ELSE IF st.currentRoom[s] # roomKey(serverId, channelId) THEN <<>>
  ELSE <<[Ev("p2p-signal", IF st.status[target] = "connected" THEN {target} ELSE {})
            EXCEPT !.from = s]>>

\* socket.on('p2p-teardown')
p2pTeardown(st, s, serverId, channelId) ==
  IF st.currentRoom[s] = roomKey(serverId, channelId)
  THEN <<[Ev("p2p-teardown", st.ioRooms[st.currentRoom[s]] \ {s}) EXCEPT
            !.room = st.currentRoom[s], !.peerId = s]>>
  ELSE <<>>

\* ------------------------------------------------------ message handlers
\* buildAuthorFromUser(socket.data.user): the author id is the user's id
buildAuthorFromUser(s) == UserOf(s)

\* a plausible slip: the client's temp id is stored as the message id
serverMessageDraftIdTemp(tempId) == tempId

\* server-message lines 647-654: the draft handed to addMessage carries no id
serverMessageDraftId(tempId) == NoId

\* a plausible slip: the room check left out
notInRoomNever(current, room) == FALSE

\* server-message line 637: socket.data.currentRoom !== roomKey(serverId, channelId)
notInRoom(current, room) == current # room

\* a plausible slip: socket.to(room), which leaves the sender out
messageRecipientsOthers(st, room, s) == st.ioRooms[room] \ {s}

\* server-message line 655: io.to(room).emit('message', ...) reaches the sockets
\* subscribed to the room, the sender among them
messageRecipients(st, room, s) == st.ioRooms[room]

\* socket.on('server-message'): result [rows, out, inserted]; inserted is the id of
\* the row the call inserted (NoId when it inserted none)
serverMessage(st, rws, clock, fresh, s, serverId, channelId, content, hasAttachments, tempId, ack) ==
  IF serverId = "" \/ channelId = "" \/ (content = "" /\ ~hasAttachments)
  THEN [rows |-> rws, inserted |-> NoId,
        out |-> Ack(s, ack, [Ev("ack", {s}) EXCEPT !.error = "Missing message fields"])]
  ELSE IF notInRoom(st.currentRoom[s], roomKey(serverId, channelId))
  THEN [rows |-> rws, inserted |-> NoId,
        out |-> Ack(s, ack, [Ev("ack", {s}) EXCEPT
                               !.error = "Join the channel before sending messages"])]
  ELSE
    LET r == addMessage(rws, clock, fresh, serverId, channelId,
                        [id |-> serverMessageDraftId(tempId),
                         authorId |-> buildAuthorFromUser(s),
                         timestamp |-> NoTs, transport |-> "server"])
        room == roomKey(serverId, channelId)
    IN IF r.threw
       THEN [rows |-> r.rows, inserted |-> NoId,
             out |-> Ack(s, ack, [Ev("ack", {s}) EXCEPT !.error = "addMessage threw"])]
       ELSE [rows |-> r.rows, inserted |-> r.id,
             out |-> <<[Ev("message", messageRecipients(st, room, s)) EXCEPT
                          !.room = room, !.type = "chat", !.message = r.message]>>
                     \o Ack(s, ack, [Ev("ack", {s}) EXCEPT
                                       !.ok = TRUE, !.message = r.message, !.tempId = tempId])]

\* a plausible slip: the client's id dropped, every stored message gets a fresh id
storeMessageIdFresh(id, fresh) == fresh

\* store-message line 683: id: id || nanoid()
storeMessageId(id, fresh) == IF id # NoId THEN id ELSE fresh

\* socket.on('store-message'): no room check; id || nanoid(), transport || 'p2p'
storeMessage(st, rws, clock, fresh, s, serverId, channelId, content, hasAttachments, id, transport, timestamp, ack) ==
  IF serverId = "" \/ channelId = "" \/ (content = "" /\ ~hasAttachments)
  THEN [rows |-> rws, inserted |-> NoId,
        out |-> Ack(s, ack, [Ev("ack", {s}) EXCEPT !.error = "Invalid payload"])]
  ELSE
    LET r == addMessage(rws, clock, fresh, serverId, channelId,
                        [id |-> storeMessageId(id, fresh),
                         authorId |-> buildAuthorFromUser(s),
                         timestamp |-> timestamp,
                         transport |-> IF transport # "" THEN transport ELSE "p2p"])
    IN IF r.threw
       THEN [rows |-> r.rows, inserted |-> NoId,
             out |-> Ack(s, ack, [Ev("ack", {s}) EXCEPT !.error = "addMessage threw"])]
       ELSE [rows |-> r.rows, inserted |-> r.id,
             out |-> Ack(s, ack, [Ev("ack", {s}) EXCEPT !.ok = TRUE, !.message = r.message])]

\* POST /api/servers/:serverId/channels/:channelId/messages for an authenticated user:
\* the response is recorded as an event to no socket (ok = status 201, else 400/404)
restPostMessage(rws, clock, fresh, userId, serverId, channelId, content, hasAttachments, id, transport, timestamp) ==
  IF content = "" /\ ~hasAttachments
  THEN [rows |-> rws, inserted |-> NoId,
        out |-> <<[Ev("response", {}) EXCEPT
                     !.error = "Message content or attachment is required"]>>]
  ELSE
    LET r == addMessage(rws, clock, fresh, serverId, channelId,
                        [id |-> IF id # NoId THEN id ELSE fresh,
                         authorId |-> userId,
                         timestamp |-> timestamp,
                         transport |-> IF transport # "" THEN transport ELSE "server"])
    IN IF r.threw
       THEN [rows |-> r.rows, inserted |-> NoId,
             out |-> <<[Ev("response", {}) EXCEPT !.error = "addMessage threw"]>>]
       ELSE [rows |-> r.rows, inserted |-> r.id,
             out |-> <<[Ev("response", {}) EXCEPT !.ok = TRUE, !.message = r.message]>>]

\* GET /api/servers/:serverId/channels/:channelId/messages: limit is the number
\* parseInt read from ?limit=, 50 when the query has none; the response is always 200
restGetMessages(rws, serverId, channelId, hasLimit, queryLimit) ==
  [out |-> <<[Ev("response", {}) EXCEPT
                !.ok = TRUE,
                !.list = getMessages(rws, serverId, channelId,
                                     IF hasLimit THEN queryLimit ELSE 50)]>>]

\* ------------------------------------------------------- client reducer
\* a Message as the client holds it; a message received from the server carries no
\* pending flag and no error
ClientMessage(id, transport, pending) ==
  [id |-> id, transport |-> transport, pending |-> pending, error |-> ""]

FromServer(row) == ClientMessage(row.id, row.transport, FALSE)

\* channelKey(serverId, channelId)
channelKey(serverId, channelId) == <<serverId, channelId>>

HasId(existing, id) == \E i \in 1..Len(existing) : existing[i].id = id

\* the filter callback of dedupeMessages: a message is kept unless its id was seen
KeepUnseen(kept, message) == IF HasId(kept, message.id) THEN kept ELSE Append(kept, message)

\* dedupeMessages: keeps the first message of every id
RECURSIVE dedupeMessages(_)
dedupeMessages(ms) ==
  IF Len(ms) = 0 THEN <<>>
  ELSE KeepUnseen(dedupeMessages(SubSeq(ms, 1, Len(ms) - 1)), ms[Len(ms)])

\* messagesReducer, case 'add'
reduceAdd(existing, message) ==
  IF HasId(existing, message.id) THEN existing ELSE Append(existing, message)

\* messagesReducer, case 'replace'
reduceReplace(existing, tempId, message) ==
  IF ~HasId(existing, tempId) THEN Append(existing, message)
  ELSE [i \in 1..Len(existing) |->
          IF existing[i].id = tempId THEN message ELSE existing[i]]

\* a plausible slip: the error is recorded and the entry stays pending
reduceErrorStaysPending(existing, id, error) ==
  [i \in 1..Len(existing) |->
     IF existing[i].id = id THEN [existing[i] EXCEPT !.error = error] ELSE existing[i]]

\* messagesReducer, case 'error'
reduceError(existing, id, error) ==
  [i \in 1..Len(existing) |->
     IF existing[i].id = id THEN [existing[i] EXCEPT !.error = error, !.pending = FALSE]
     ELSE existing[i]]

\* messagesReducer(state, action): state maps channel keys to message lists
messagesReducer(state, action) ==
  IF action.type = "reset" THEN [k \in DOMAIN state |-> <<>>]
  ELSE [state EXCEPT ![channelKey(action.serverId, action.channelId)] =
          CASE action.type = "set-history" -> dedupeMessages(action.messages)
            [] action.type = "add" -> reduceAdd(@, action.message)
            [] action.type = "replace" -> reduceReplace(@, action.tempId, action.message)
            [] action.type = "error" -> reduceError(@, action.id, action.error)
            [] OTHER -> @]

ClientAction(type, serverId, channelId) ==
  [type |-> type, serverId |-> serverId, channelId |-> channelId,
   message |-> ClientMessage(NoId, "", FALSE), messages |-> <<>>,
   tempId |-> NoId, id |-> NoId, error |-> ""]

\* handleMessage: socket.on('message') dispatches add under the message's channel
handleMessage(state, e) ==
  IF e.message = NullRow THEN state          \* message.serverId of null throws
  ELSE messagesReducer(state,
    [ClientAction("add", e.message.serverId, e.message.channelId) EXCEPT
       !.message = FromServer(e.message)])

\* the ack callback of handleSendMessage for the send of baseMessage tempId
sendAck(state, serverId, channelId, tempId, response) ==
  IF response.ok /\ response.message # NullRow
  THEN messagesReducer(state,
         [ClientAction("replace", serverId, channelId) EXCEPT
            !.tempId = tempId, !.message = FromServer(response.message)])
  ELSE IF response.error # ""
  THEN messagesReducer(state,
         [ClientAction("error", serverId, channelId) EXCEPT
            !.id = tempId, !.error = response.error])
  ELSE state

\* ------------------------------------------------------------- actions
SetServer(st) ==
  /\ status' = st.status
  /\ socketUser' = st.socketUser
  /\ currentRoom' = st.currentRoom
  /\ ioRooms' = st.ioRooms
  /\ channelMembers' = st.channelMembers
  /\ clients' = st.clients
  /\ socketsByUser' = st.socketsByUser
  /\ userVersion' = userVersion
  /\ sessions' = sessions

\* number of channel-event events of the type in o for user u of room r
Announced(o, type, r, u) ==
  Cardinality({i \in 1..Len(o) : /\ o[i].ev = "channel-event" /\ o[i].type = type
                                 /\ o[i].room = r /\ o[i].user = u})

\* history: per (room, user), the user-joined events minus the user-left events
\* emitted so far, bal counting those before the handler that emitted o
BalanceAfter(bal, o) ==
  [pr \in Rooms \X Users |->
     bal[pr] + Announced(o, "user-joined", pr[1], pr[2])
             - Announced(o, "user-left", pr[1], pr[2])]

\* the event handled, with the server state and the history it was handled in
LastEvWith(ev, s, serverId, channelId, bal) ==
  [ev |-> ev, s |-> s, serverId |-> serverId, channelId |-> channelId,
   tempId |-> NoId, id |-> NoId, timestamp |-> NoTs, ack |-> FALSE,
   target |-> NoSocket, inserted |-> NoId, pre |-> ServerState, intro |-> introduced,
   limit |-> 0, content |-> "", hasAttachments |-> FALSE, cookie |-> FALSE,
   bal |-> bal]

LastEv(ev, s, serverId, channelId) ==
  LastEvWith(ev, s, serverId, channelId, BalanceAfter(last.bal, out))

\* payload (serverId, channelId) pairs a client sends: two channels, an unknown
\* channel, a missing serverId, a missing channelId
Targets == {<<"sv1", "c1">>, <<"sv1", "c2">>, <<"sv1", "cX">>, <<"", "c1">>, <<"sv1", "">>}

\* the open introductions after a handler that emitted o: a p2p-init to p naming c
\* opens (p, c); closer is the socket that left its room or tore its sessions down
\* (NoSocket when none did), which closes every introduction it is part of
IntroducedAfter(o, closer) ==
  [p \in Sockets |->
     IF p = closer THEN {}
     ELSE (introduced[p] \ {closer})
          \cup {o[i].peerId : i \in {j \in 1..Len(o) : o[j].ev = "p2p-init" /\ p \in o[j].to}}]

\* a client opens socket s: the handshake middleware admits or refuses it
Handshake(s, hasCookie) ==
  /\ status[s] = "offline"
  /\ \E r \in {authMiddleware(sessions, s, hasCookie)} :
        /\ status' = [status EXCEPT ![s] = r.status]
        /\ sessions' = r.sessions
  /\ out' = <<>>
  /\ last' = [LastEv("handshake", s, "", "") EXCEPT !.cookie = hasCookie]
  /\ UNCHANGED <<userVersion, socketUser, currentRoom, ioRooms, channelMembers, clients,
                 socketsByUser, joined, ledgerVars, p2pVars, clientVars>>

\* the session of user u expires or u logs out
SessionEnds(u) ==
  /\ u \in sessions
  /\ sessions' = sessions \ {u}
  /\ out' = <<>>
  /\ last' = LastEv("session-ends", NoSocket, "", "")
  /\ UNCHANGED <<userVersion, status, socketUser, currentRoom, ioRooms, channelMembers,
                 clients, socketsByUser, joined, ledgerVars, p2pVars, clientVars>>

\* the row of user u leaves the users table.  The server itself never deletes a user;
\* the table is a database file that outlives the process and that the handshake and
\* refreshSocketProfile both expect may have lost the row
UserGone(u) ==
  /\ userVersion[u] # 0
  /\ userVersion' = [userVersion EXCEPT ![u] = 0]
  /\ out' = <<>>
  /\ last' = LastEv("user-gone", NoSocket, "", "")
  /\ UNCHANGED <<sessions, status, socketUser, currentRoom, ioRooms, channelMembers,
                 clients, socketsByUser, joined, ledgerVars, p2pVars, clientVars>>

\* PATCH /api/me of user u, who holds a session: userStore.updateProfile writes the
\* new display name, colour and avatar; no socket is told
UpdateProfile(u) ==
  /\ u \in sessions
  /\ findById(u)
  /\ userVersion[u] < MaxVersion
  /\ userVersion' = [userVersion EXCEPT ![u] = @ + 1]
  /\ out' = <<>>
  /\ last' = LastEv("update-profile", NoSocket, "", "")
  /\ UNCHANGED <<sessions, status, socketUser, currentRoom, ioRooms, channelMembers,
                 clients, socketsByUser, joined, ledgerVars, p2pVars, clientVars>>

Connect(s) ==
  /\ status[s] = "new"
  /\ \E r \in {connectionHandler(ServerState, s)} :
        /\ SetServer(r.st)
        /\ out' = r.out
  /\ last' = LastEv("connection", s, "", "")
  /\ UNCHANGED <<joined, ledgerVars, p2pVars, clientVars>>

Register(s, ack) ==
  /\ status[s] = "connected"
  /\ \E r \in {registerHandler(ServerState, s, ack)} :
        /\ SetServer(r.st)
        /\ out' = r.out
        /\ joined' = IF r.st.status[s] = "connected" THEN joined
                     ELSE [joined EXCEPT ![s] = NoRoom]
        /\ introduced' = IntroducedAfter(r.out, IF r.st.status[s] = "connected"
                                                 THEN NoSocket ELSE s)
  /\ last' = [LastEv("register", s, "", "") EXCEPT !.ack = ack]
  /\ UNCHANGED <<ledgerVars, initTrue, readyCount, clientVars>>

JoinChannel(s, serverId, channelId, ack) ==
  /\ status[s] = "connected"
  /\ \E r \in {joinChannel(ServerState, s, serverId, channelId, ack)} :
        /\ SetServer(r.st)
        /\ out' = r.out
  /\ joined' = IF serverId # "" /\ channelId # "" /\ getChannel(serverId, channelId)
               THEN [joined EXCEPT ![s] = roomKey(serverId, channelId)]
               ELSE joined
  /\ introduced' = IntroducedAfter(out', IF /\ serverId # "" /\ channelId # ""
                                            /\ getChannel(serverId, channelId)
                                            /\ currentRoom[s] # roomKey(serverId, channelId)
                                         THEN s ELSE NoSocket)
  /\ last' = [LastEv("join-channel", s, serverId, channelId) EXCEPT !.ack = ack]
  /\ UNCHANGED <<ledgerVars, initTrue, readyCount, clientVars>>

LeaveChannel(s) ==
  /\ status[s] = "connected"
  /\ \E r \in {leaveRoom(ServerState, s, "left")} :
        /\ SetServer(r.st)
        /\ out' = r.out
  /\ joined' = [joined EXCEPT ![s] = NoRoom]
  /\ introduced' = IntroducedAfter(out', s)
  /\ last' = LastEv("leave-channel", s, "", "")
  /\ UNCHANGED <<ledgerVars, initTrue, readyCount, clientVars>>

Disconnect(s) ==
  /\ status[s] = "connected"
  /\ \E r \in {disconnectHandler(ServerState, s)} :
        /\ SetServer(r.st)
        /\ out' = r.out
  /\ joined' = [joined EXCEPT ![s] = NoRoom]
  /\ introduced' = IntroducedAfter(out', s)
  /\ last' = LastEv("disconnect", s, "", "")
  /\ UNCHANGED <<ledgerVars, initTrue, readyCount, clientVars>>

\* number of p2p-init events with initiator = true in o sent to recipient naming peer
InitTrueIn(o, recipient, peer) ==
  Cardinality({i \in 1..Len(o) : /\ o[i].ev = "p2p-init"
                                 /\ o[i].initiator
                                 /\ recipient \in o[i].to
                                 /\ o[i].peerId = peer})

P2PReady(s, serverId, channelId) ==
  /\ status[s] = "connected"
  /\ readyCount < MaxReady
  /\ \E r \in {p2pReady(ServerState, s, serverId, channelId)} :
        /\ SetServer(r.st)
        /\ out' = r.out
        /\ initTrue' = [pr \in Sockets \X Sockets |->
                          initTrue[pr] + InitTrueIn(r.out, pr[1], pr[2])]
        /\ introduced' = IntroducedAfter(r.out, NoSocket)
  /\ readyCount' = readyCount + 1
  /\ last' = LastEv("p2p-ready", s, serverId, channelId)
  /\ UNCHANGED <<joined, ledgerVars, clientVars>>

P2PSignal(s, target, data, serverId, channelId) ==
  /\ status[s] = "connected"
  /\ out' = p2pSignal(ServerState, s, target, data, serverId, channelId)
  /\ last' = [LastEv("p2p-signal", s, serverId, channelId) EXCEPT !.target = target]
  /\ UNCHANGED <<roomVars, joined, ledgerVars, p2pVars, clientVars>>

P2PTeardown(s, serverId, channelId) ==
  /\ status[s] = "connected"
  /\ out' = p2pTeardown(ServerState, s, serverId, channelId)
  /\ introduced' = IntroducedAfter(out', IF currentRoom[s] = roomKey(serverId, channelId)
                                         THEN s ELSE NoSocket)
  /\ last' = LastEv("p2p-teardown", s, serverId, channelId)
  /\ UNCHANGED <<roomVars, joined, ledgerVars, initTrue, readyCount, clientVars>>

\* the server clock moves on
Tick ==
  /\ now < MaxClock
  /\ now' = now + 1
  /\ out' = <<>>
  /\ last' = LastEv("tick", NoSocket, "", "")
  /\ UNCHANGED <<rows, nextId, appended, addCount, uploads, servers, channels, roomVars,
                 joined, p2pVars, clientVars>>

\* the ledger after a handler that ran addMessage at most once
SetLedger(r, channelId) ==
  /\ rows' = r.rows
  /\ nextId' = IF r.inserted = nextId THEN nextId + 1 ELSE nextId
  /\ appended' = IF r.inserted = NoId THEN appended
                 ELSE [appended EXCEPT ![channelId] = Append(@, r.inserted)]
  /\ addCount' = addCount + 1
  /\ now' = now
  /\ UNCHANGED <<uploads, servers, channels>>

\* the server handles one server-message event
ServerMessageHandled(s, serverId, channelId, content, hasAttachments, tempId, ack) ==
  /\ status[s] = "connected"
  /\ addCount < MaxAppends
  /\ \E r \in {serverMessage(ServerState, rows, now, nextId, s, serverId, channelId,
                            content, hasAttachments, tempId, ack)} :
        /\ SetLedger(r, channelId)
        /\ out' = r.out
        /\ last' = [LastEv("server-message", s, serverId, channelId) EXCEPT
                      !.tempId = tempId, !.ack = ack, !.inserted = r.inserted,
                      !.content = content, !.hasAttachments = hasAttachments]
  /\ UNCHANGED <<roomVars, joined, p2pVars>>

\* a server-message sent by a caller whose client state is not followed
ServerMessage(s, serverId, channelId, content, hasAttachments, tempId, ack) ==
  /\ ServerMessageHandled(s, serverId, channelId, content, hasAttachments, tempId, ack)
  /\ UNCHANGED clientVars

StoreMessage(s, serverId, channelId, content, hasAttachments, id, transport, timestamp, ack) ==
  /\ status[s] = "connected"
  /\ addCount < MaxAppends
  /\ \E r \in {storeMessage(ServerState, rows, now, nextId, s, serverId, channelId,
                           content, hasAttachments, id, transport, timestamp, ack)} :
        /\ SetLedger(r, channelId)
        /\ out' = r.out
        /\ last' = [LastEv("store-message", s, serverId, channelId) EXCEPT
                      !.id = id, !.timestamp = timestamp, !.ack = ack,
                      !.inserted = r.inserted,
                      !.content = content, !.hasAttachments = hasAttachments]
  /\ UNCHANGED <<roomVars, joined, p2pVars, clientVars>>

RestPostMessage(userId, serverId, channelId, content, hasAttachments, id, transport, timestamp) ==
  /\ addCount < MaxAppends
  /\ \E r \in {restPostMessage(rows, now, nextId, userId, serverId, channelId,
                              content, hasAttachments, id, transport, timestamp)} :
        /\ SetLedger(r, channelId)
        /\ out' = r.out
        /\ last' = [LastEv("rest-post-message", NoSocket, serverId, channelId) EXCEPT
                      !.id = id, !.timestamp = timestamp, !.inserted = r.inserted]
  /\ UNCHANGED <<roomVars, joined, p2pVars, clientVars>>

\* the server answers one GET of a channel's messages
GetMessages(serverId, channelId, hasLimit, queryLimit) ==
  /\ \E r \in {restGetMessages(rows, serverId, channelId, hasLimit, queryLimit)} :
        out' = r.out
  /\ last' = [LastEv("get-messages", NoSocket, serverId, channelId) EXCEPT
                !.limit = IF hasLimit THEN queryLimit ELSE 50]
  /\ UNCHANGED <<ledgerVars, roomVars, joined, p2pVars, clientVars>>

\* ------------------------------------------------------- client actions
\* selectedServerId, selectedChannelId of the client on socket c
Selected(c) == IF c = 2 THEN <<"sv1", "c2">> ELSE <<"sv1", "c1">>

\* handleSendMessage in server mode: the optimistic add, then the emit with tempId
ClientSend(c, content) ==
  /\ status[c] = "connected"
  /\ Len(sends) < MaxSends
  /\ content # ""
  /\ \E tempId \in {9001 + Len(sends)} :
        /\ messages' = [messages EXCEPT ![c] =
              messagesReducer(@, [ClientAction("add", Selected(c)[1], Selected(c)[2])
                                    EXCEPT !.message = ClientMessage(tempId, "server", TRUE)])]
        /\ outbox' = [outbox EXCEPT ![c] =
              Append(@, [serverId |-> Selected(c)[1], channelId |-> Selected(c)[2],
                         content |-> content, tempId |-> tempId])]
        /\ sends' = Append(sends, [client |-> c, tempId |-> tempId, key |-> Selected(c),
                                   handled |-> FALSE, serverId |-> NoId, acked |-> FALSE])
        /\ last' = [LastEv("client-send", c, Selected(c)[1], Selected(c)[2])
                      EXCEPT !.tempId = tempId]
  /\ out' = <<>>
  /\ UNCHANGED <<inbox, typing, composer, useP2P, roomVars, joined, ledgerVars, p2pVars>>

\* the packets of the events in o addressed to socket c; cb names the send whose ack
\* callback an ack packet invokes
Packets(o, c, cb) ==
  [i \in 1..Len(SelectSeq(o, LAMBDA e : c \in e.to /\ e.ev \in {"message", "ack"})) |->
     [e |-> SelectSeq(o, LAMBDA e : c \in e.to /\ e.ev \in {"message", "ack"})[i],
      cb |-> cb]]

\* a plausible slip: new packets overtake the ones still queued
deliverFirst(queue, packets) == packets \o queue

\* the connection of a socket carries the server's packets in the order they were
\* emitted
deliver(queue, packets) == queue \o packets

\* the server takes the oldest server-message packet of client c; its broadcast and
\* its ack are queued to their recipients in emission order
ServerReceive(c) ==
  /\ Len(outbox[c]) > 0
  /\ ServerMessageHandled(c, Head(outbox[c]).serverId, Head(outbox[c]).channelId,
                          Head(outbox[c]).content, FALSE, Head(outbox[c]).tempId, TRUE)
  /\ outbox' = [outbox EXCEPT ![c] = Tail(@)]
  /\ inbox' = [d \in Sockets |-> deliver(inbox[d], Packets(out', d, Head(outbox[c]).tempId))]
  /\ sends' = [i \in 1..Len(sends) |->
                 IF sends[i].tempId = Head(outbox[c]).tempId
                 THEN [sends[i] EXCEPT !.handled = TRUE, !.serverId = last'.inserted]
                 ELSE sends[i]]
  /\ UNCHANGED <<messages, typing, composer, useP2P>>

\* the client takes its oldest packet: handleMessage for a 'message' event, the ack
\* callback of the send for an ack
ClientReceive(c) ==
  /\ Len(inbox[c]) > 0
  /\ \E p \in {Head(inbox[c])} :
        /\ messages' = [messages EXCEPT ![c] =
              IF p.e.ev = "message" THEN handleMessage(@, p.e)
              ELSE sendAck(@, Selected(c)[1], Selected(c)[2], p.cb, p.e)]
        /\ sends' = [i \in 1..Len(sends) |->
                       IF p.e.ev = "ack" /\ sends[i].tempId = p.cb
                       THEN [sends[i] EXCEPT !.acked = TRUE] ELSE sends[i]]
        /\ last' = [LastEv("client-receive", c, "", "") EXCEPT !.tempId = p.cb]
  /\ inbox' = [inbox EXCEPT ![c] = Tail(@)]
  /\ out' = <<>>
  /\ UNCHANGED <<outbox, typing, composer, useP2P, roomVars, joined, ledgerVars, p2pVars>>

\* the client of socket s emits typing-start for its selected channel.  The server
\* registers no listener for the event (its listeners are register, join-channel,
\* leave-channel, server-message, store-message, p2p-ready, p2p-signal, p2p-teardown
\* and disconnect), so socket.io drops it: no state changes and nothing is emitted
TypingStart(s) ==
  /\ status[s] = "connected"
  /\ typing[UserOf(s)].n < MaxTyping
  /\ typing' = [typing EXCEPT ![UserOf(s)] =
                  [n |-> @.n + 1, room |-> roomKey(Selected(s)[1], Selected(s)[2])]]
  /\ out' = <<>>
  /\ last' = LastEv("typing-start", s, Selected(s)[1], Selected(s)[2])
  /\ UNCHANGED <<messages, outbox, inbox, sends, composer, useP2P, roomVars, joined, ledgerVars, p2pVars>>

\* the client of socket s emits typing-stop; the server has no listener for it either
TypingStop(s) ==
  /\ status[s] = "connected"
  /\ typing[UserOf(s)].n < MaxTyping
  /\ typing' = [typing EXCEPT ![UserOf(s)] = [n |-> @.n + 1, room |-> NoRoom]]
  /\ out' = <<>>
  /\ last' = LastEv("typing-stop", s, Selected(s)[1], Selected(s)[2])
  /\ UNCHANGED <<messages, outbox, inbox, sends, composer, useP2P, roomVars, joined, ledgerVars, p2pVars>>

\* ------------------------------------------------------- initial states
\* no socket has connected yet
EmptyServer ==
  [status |-> [s \in Sockets |-> "new"], socketUser |-> [s \in Sockets |-> 0],
   currentRoom |-> [s \in Sockets |-> NoRoom], ioRooms |-> [r \in Rooms |-> {}],
   channelMembers |-> <<>>, clients |-> <<>>, socketsByUser |-> <<>>]

SeedRow(id, channelId, ts) ==
  [id |-> id, serverId |-> "sv1", channelId |-> channelId, authorId |-> "system",
   timestamp |-> ts, transport |-> "server"]

\* seedInitialData: the welcome messages of createDefaultState, all stamped `now`
SeedRows == <<SeedRow(1, "c1", 2), SeedRow(2, "c1", 2), SeedRow(3, "c2", 2)>>

\* a database that has run for a while: channel c1 holds k rows, all but the seeds
\* stamped 3
PrefillRows(k) == SeedRows \o [i \in 1..(k - 2) |-> SeedRow(3 + i, "c1", 3)]

InitServer(st) ==
  /\ status = st.status
  /\ socketUser = st.socketUser
  /\ currentRoom = st.currentRoom
  /\ ioRooms = st.ioRooms
  /\ channelMembers = st.channelMembers
  /\ clients = st.clients
  /\ socketsByUser = st.socketsByUser

InitGhosts ==
  /\ out = <<>>
  /\ joined = [s \in Sockets |-> currentRoom[s]]
  /\ initTrue = [pr \in Sockets \X Sockets |-> 0]
  /\ readyCount = 0
  /\ introduced = [p \in Sockets |-> {}]
  /\ addCount = 0
  /\ uploads = [a \in AttachmentIds |-> NoUpload]
  /\ servers = {t[1] : t \in ChannelTable}
  /\ channels = ChannelTable
  /\ last = LastEvWith("init", NoSocket, "", "",
                     [pr \in Rooms \X Users |->
                        IF /\ MapHas(channelMembers, pr[1])
                           /\ MapHas(MapGet(channelMembers, pr[1]), pr[2])
                        THEN 1 ELSE 0])

\* a MessageComposer as mounted: useState('') and the two refs, null and false;
\* calls is the history of the prop callbacks invoked, inputs the number of user
\* events handled
NewComposer ==
  [mounted |-> TRUE, disabled |-> FALSE, hasText |-> FALSE, showEmojiPicker |-> FALSE,
   typingActive |-> FALSE, typingTimer |-> FALSE, calls |-> <<>>, inputs |-> 0]

\* useP2P as first rendered by ChatApp: transport mode 'server' (enabled false), a
\* channel selected and selfMember set; peersRef is an empty Map.  live is the
\* history of SimplePeer instances constructed and not yet destroyed or closed,
\* emitted the events the step handled last sent to the server
NewHook ==
  [enabled |-> FALSE, room |-> <<"sv1", "c1">>, currentUser |-> TRUE, peers |-> <<>>,
   live |-> {}, nextPeer |-> 1, emitted |-> <<>>, handled |-> "render", peerId |-> NoSocket,
   initiator |-> FALSE]

InitClient ==
  /\ messages = [c \in Sockets |-> [k \in Rooms |-> <<>>]]
  /\ outbox = [c \in Sockets |-> <<>>]
  /\ inbox = [c \in Sockets |-> <<>>]
  /\ sends = <<>>
  /\ typing = [u \in Users |-> NoTyping]
  /\ composer = NewComposer
  /\ useP2P = NewHook

InitSeededLedger ==
  /\ rows = SeedRows
  /\ now = 2
  /\ nextId = 4
  /\ appended = [c \in {"c1", "c2"} |-> ChannelRowIds(rows, c)]

\* ------------------------------------------- rooms and presence: Spec
Init ==
  /\ userVersion = [u \in Users |-> 1]
  /\ sessions = Users
  /\ InitSeededLedger
  /\ InitServer(EmptyServer)
  /\ InitGhosts
  /\ InitClient

Next ==
  \/ \E s \in Sockets : Connect(s)
  \/ \E s \in Sockets, ack \in BOOLEAN : Register(s, ack)
  \/ \E s \in Sockets, t \in Targets, ack \in BOOLEAN : JoinChannel(s, t[1], t[2], ack)
  \/ \E s \in Sockets : LeaveChannel(s)
  \/ \E s \in Sockets : Disconnect(s)

Spec == Init /\ [][Next]_vars

\* ------------------------------------------------- the ledger: SpecLedger
\* sockets 1 and 2 are connected and have joined c1 and c2, socket 3 is connected and
\* has joined no room
LedgerServer ==
  [status |-> [s \in Sockets |-> IF s <= 3 THEN "connected" ELSE "new"],
   socketUser |-> [s \in Sockets |-> IF s <= 3 THEN 1 ELSE 0],
   currentRoom |-> [s \in Sockets |-> IF s = 1 THEN <<"sv1", "c1">>
                                      ELSE IF s = 2 THEN <<"sv1", "c2">> ELSE NoRoom],
   ioRooms |-> [r \in Rooms |-> IF r = <<"sv1", "c1">> THEN {1} ELSE {2}],
   channelMembers |-> <<[k |-> <<"sv1", "c1">>, v |-> <<[k |-> "u1", v |-> <<1>>]>>],
                        [k |-> <<"sv1", "c2">>, v |-> <<[k |-> "u2", v |-> <<2>>]>>]>>,
   clients |-> [s \in 1..3 |-> [k |-> s, v |-> buildMemberFromUser(UserOf(s), 1, s)]],
   socketsByUser |-> <<[k |-> "u1", v |-> <<1, 3>>], [k |-> "u2", v |-> <<2>>]>>]

InitLedger ==
  /\ userVersion = [u \in Users |-> 1]
  /\ sessions = Users
  /\ \E k \in {MAX_MESSAGES_PER_CHANNEL - 1, MAX_MESSAGES_PER_CHANNEL} :
        /\ rows = PrefillRows(k)
        /\ nextId = k + 2
  /\ now = 3
  /\ appended = [c \in {"c1", "c2"} |-> ChannelRowIds(rows, c)]
  /\ InitServer(LedgerServer)
  /\ InitGhosts
  /\ InitClient

\* inputs of the ledger's callers: text or nothing, a joined or another or an unknown
\* channel, with or without a client id, with no timestamp or one older than every
\* row or one in the future
Drafts == {<<"hi", FALSE>>, <<"", FALSE>>}
MsgTargets == {<<"sv1", "c1">>, <<"sv1", "c2">>, <<"sv1", "cX">>}
ClientTimestamps == {NoTs, 1, 9}

NextLedger ==
  \/ Tick
  \/ \E s \in Sockets, t \in MsgTargets, d \in Drafts :
        ServerMessage(s, t[1], t[2], d[1], d[2], 9001, TRUE)
  \/ \E s \in {1, 3}, t \in {<<"sv1", "c1">>, <<"sv1", "cX">>}, id \in {NoId, 9001},
        ts \in ClientTimestamps :
        StoreMessage(s, t[1], t[2], "hi", FALSE, id, "p2p", ts, TRUE)
  \/ \E id \in {NoId, 9002}, ts \in {NoTs, 1} :
        RestPostMessage("u1", "sv1", "c1", "hi", FALSE, id, "", ts)

SpecLedger == InitLedger /\ [][NextLedger]_vars

\* ---------------------------------------------------- reading: SpecRead
\* ?limit= values: negative, zero, small, above the cap
ReadLimits == {-1, 0, 1, 2, 250}

NextRead ==
  \/ Tick
  \/ \E t \in {<<"sv1", "c1">>, <<"sv1", "cX">>}, ts \in ClientTimestamps :
        StoreMessage(1, t[1], t[2], "hi", FALSE, NoId, "p2p", ts, TRUE)
  \/ \E t \in MsgTargets, hasLimit \in BOOLEAN, q \in ReadLimits :
        GetMessages(t[1], t[2], hasLimit, q)

SpecRead == InitLedger /\ [][NextRead]_vars

\* ------------------------------------------------ optimistic sends: SpecClient
\* the clients of sockets 1 to 3 send in server mode while sockets join and leave c1
InitClientSpec ==
  /\ userVersion = [u \in Users |-> 1]
  /\ sessions = Users
  /\ InitSeededLedger
  /\ InitServer(LedgerServer)
  /\ InitGhosts
  /\ InitClient

NextClient ==
  \/ \E c \in Sockets : ClientSend(c, "hi")
  \/ \E c \in Sockets : ServerReceive(c)
  \/ \E c \in Sockets : ClientReceive(c)
  \/ \E s \in {2, 3} : JoinChannel(s, "sv1", "c1", FALSE)
  \/ \E s \in {1, 3} : LeaveChannel(s)

SpecClient == InitClientSpec /\ [][NextClient]_vars

\* ---------------------------------------------------- signaling: SpecP2P
\* connected sockets move between rooms, declare themselves ready, signal and tear down
InitP2P ==
  /\ userVersion = [u \in Users |-> 1]
  /\ sessions = Users
  /\ InitSeededLedger
  /\ InitServer(LedgerServer)
  /\ InitGhosts
  /\ InitClient

\* p2p-ready payloads: the two channels and a missing channelId; p2p-signal payloads
\* of socket 1: a target (in its room or not), no target, no data
NextP2P ==
  \/ \E s \in Sockets : JoinChannel(s, "sv1", "c1", FALSE)
  \/ JoinChannel(2, "sv1", "c2", FALSE)
  \/ \E s \in {1, 2} : LeaveChannel(s)
  \/ Disconnect(3)
  \/ \E s \in Sockets, c \in {"c1", "c2", ""} : P2PReady(s, "sv1", c)
  \/ \E target \in {2, 3, NoSocket}, data \in BOOLEAN :
        P2PSignal(1, target, data, "sv1", "c1")
  \/ \E s \in {1, 2} : P2PTeardown(s, "sv1", "c1")

SpecP2P == InitP2P /\ [][NextP2P]_vars

\* -------------------------------------------------- rejections: SpecReject
\* the three sockets are connected, 1 in c1 and 2 in c2; every handler with an ack
\* gets payloads that pass and payloads that do not: a missing field, an unknown
\* channel, a room the sender is not in, an id that is taken
NextReject ==
  \/ \E s \in {2, 3}, t \in Targets, ack \in BOOLEAN : JoinChannel(s, t[1], t[2], ack)
  \/ LeaveChannel(2)
  \/ Disconnect(2)
  \/ \E s \in {1, 3}, t \in Targets, d \in Drafts, ack \in BOOLEAN :
        ServerMessage(s, t[1], t[2], d[1], d[2], 9001, ack)
  \/ \E t \in Targets, d \in Drafts, id \in {NoId, 1}, ack \in BOOLEAN :
        StoreMessage(3, t[1], t[2], d[1], d[2], id, "p2p", NoTs, ack)

SpecReject == InitP2P /\ [][NextReject]_vars

\* ------------------------------------------------------ identity: SpecAuth
\* no socket has been opened yet; clients open sockets with or without the cookie,
\* sessions end and user rows may go
InitAuth ==
  /\ userVersion = [u \in Users |-> 1]
  /\ sessions = Users
  /\ InitSeededLedger
  /\ InitServer([EmptyServer EXCEPT !.status = [s \in Sockets |-> "offline"]])
  /\ InitGhosts
  /\ InitClient

NextAuth ==
  \/ \E s \in Sockets, hasCookie \in BOOLEAN : Handshake(s, hasCookie)
  \/ \E u \in Users : SessionEnds(u)
  \/ \E u \in Users : UserGone(u)
  \/ \E s \in Sockets : Connect(s)
  \/ \E s \in Sockets, ack \in BOOLEAN : Register(s, ack)
  \/ \E s \in Sockets : JoinChannel(s, "sv1", "c1", FALSE)
  \/ \E s \in Sockets : Disconnect(s)

SpecAuth == InitAuth /\ [][NextAuth]_vars

\* ---------------------------------------------------- profiles: SpecProfile
\* sockets 1 and 3 belong to the same user; profiles are edited while the sockets
\* join, leave and register
NextProfile ==
  \/ \E u \in Users : UpdateProfile(u)
  \/ \E s \in Sockets, ack \in BOOLEAN : Register(s, ack)
  \/ \E s \in Sockets : JoinChannel(s, "sv1", "c1", TRUE)
  \/ \E s \in Sockets : LeaveChannel(s)

SpecProfile == InitP2P /\ [][NextProfile]_vars

\* ------------------------------------------------------ typing: SpecTyping
\* sockets 1 and 2 sit in c1 and c2, socket 3 comes and goes; the clients type
NextTyping ==
  \/ Tick
  \/ \E s \in Sockets : TypingStart(s)
  \/ \E s \in Sockets : TypingStop(s)
  \/ JoinChannel(3, "sv1", "c1", FALSE)
  \/ LeaveChannel(3)

\* the clock keeps moving: time passes whatever the clients do
SpecTyping == InitP2P /\ [][NextTyping]_vars /\ WF_vars(Tick)

\* ------------------------------------------------------------ claims
\* C1: after every addMessage call, each channel stores at most
\* MAX_MESSAGES_PER_CHANNEL messages.
C1_CountAtMostCap ==
  \A c \in {"c1", "c2"} : channelCount(rows, c) <= MAX_MESSAGES_PER_CHANNEL

\* C1 witness: an accepted append to a channel that was full, so that a row was pruned
C1_Witness ==
  /\ last.inserted # NoId
  /\ Len(appended[last.channelId]) > MAX_MESSAGES_PER_CHANNEL
  /\ channelCount(rows, last.channelId) = MAX_MESSAGES_PER_CHANNEL

\* C2 (as claimed): the rows of a channel are exactly the last
\* min(n, MAX_MESSAGES_PER_CHANNEL) messages appended to it, in insertion order.
C2_RetainsMostRecentByInsertion ==
  \A c \in {"c1", "c2"} :
     ChannelRowIds(rows, c) = LastN(appended[c], MAX_MESSAGES_PER_CHANNEL)

\* ---- helpers of the claims about rooms
\* the user's socket set in a room of membership table cm, as a set ({} without entry)
UserSockets(cm, room, userId) ==
  IF MapHas(cm, room) /\ MapHas(MapGet(cm, room), userId)
  THEN Range(MapGet(MapGet(cm, room), userId)) ELSE {}

HasUserEntry(cm, room, userId) == MapHas(cm, room) /\ MapHas(MapGet(cm, room), userId)

RoomSockets(cm, room) == Range(listRoomSocketIds(cm, room))

\* the handler that ran last emitted a channel-event of this type for (room, user)
Emitted(type, room, userId) ==
  \E i \in 1..Len(out) : /\ out[i].ev = "channel-event" /\ out[i].type = type
                         /\ out[i].room = room /\ out[i].user = userId

LastRoom == roomKey(last.serverId, last.channelId)

\* the last event was a join-channel that was carried out (named an existing channel
\* other than the socket's current room)
JoinDone ==
  /\ last.ev = "join-channel"
  /\ LastRoom \in Rooms
  /\ last.pre.currentRoom[last.s] # LastRoom

\* the last event made socket last.s leave room last.pre.currentRoom[last.s]
LeftDone ==
  /\ last.ev \in {"leave-channel", "disconnect"} \/ JoinDone
  /\ last.pre.currentRoom[last.s] # NoRoom

\* C3: channelMembers[room] has an entry for a user iff a connected socket of the user
\* has joined the room and not since left, moved or disconnected, and the entry's set
\* is exactly those sockets.
C3_MembershipMatchesJoins ==
  \A r \in Rooms, u \in Users :
     LET live == {s \in Sockets : status[s] = "connected" /\ UserOf(s) = u /\ joined[s] = r}
     IN /\ HasUserEntry(channelMembers, r, u) <=> live # {}
        /\ UserSockets(channelMembers, r, u) = live

\* C3 witness: one of two sockets of a user in a room has gone, the other is still there
C3_Witness ==
  /\ LeftDone
  /\ UserSockets(last.pre.channelMembers, last.pre.currentRoom[last.s], UserOf(last.s))
       \ {last.s} # {}
  /\ HasUserEntry(channelMembers, last.pre.currentRoom[last.s], UserOf(last.s))

\* C4: user-joined is broadcast only by the join that makes the user's socket set of
\* the room non-empty; a join while another socket of the user is present emits none.
C4_UserJoinedOnlyOnFirstJoin ==
  \A i \in 1..Len(out) :
     (out[i].ev = "channel-event" /\ out[i].type = "user-joined") =>
        /\ JoinDone
        /\ out[i].room = LastRoom
        /\ out[i].user = UserOf(last.s)
        /\ UserSockets(last.pre.channelMembers, LastRoom, UserOf(last.s)) = {}

\* C4 witness: a join carried out while another socket of the same user was present
C4_Witness ==
  /\ JoinDone
  /\ UserSockets(last.pre.channelMembers, LastRoom, UserOf(last.s)) # {}
  /\ last.s \in UserSockets(channelMembers, LastRoom, UserOf(last.s))
  /\ ~Emitted("user-joined", LastRoom, UserOf(last.s))

\* C5: when a socket leaves a room (leave-channel, room switch, disconnect), user-left
\* is broadcast iff it was the last socket of its user in the room.
C5_UserLeftIffLastSocket ==
  LeftDone =>
     LET room == last.pre.currentRoom[last.s]
         u == UserOf(last.s)
     IN Emitted("user-left", room, u)
          <=> UserSockets(last.pre.channelMembers, room, u) = {last.s}

\* C5 witness: a socket left while another socket of its user stayed, and nothing was
\* announced
C5_Witness ==
  /\ LeftDone
  /\ UserSockets(last.pre.channelMembers, last.pre.currentRoom[last.s], UserOf(last.s))
       \ {last.s} # {}
  /\ ~Emitted("user-left", last.pre.currentRoom[last.s], UserOf(last.s))

\* C6: a socket is in the membership of at most one room; a join of room B while in
\* room A emits A's leave events before B's presence-update and leaves the socket in
\* B's membership only.
C6_SingleRoomPerSocket ==
  /\ \A s \in Sockets :
        Cardinality({r \in Rooms : s \in RoomSockets(channelMembers, r)}) <= 1
  /\ JoinDone =>
        /\ {r \in Rooms : last.s \in RoomSockets(channelMembers, r)} = {LastRoom}
        /\ last.pre.currentRoom[last.s] # NoRoom =>
              \E i, j \in 1..Len(out) :
                 /\ i < j
                 /\ out[i].ev = "p2p-teardown"
                 /\ out[i].room = last.pre.currentRoom[last.s]
                 /\ out[i].peerId = last.s
                 /\ out[j].ev = "presence-update"
                 /\ out[j].room = LastRoom

\* C6 witness: a socket that was a member of one room has joined another
C6_Witness ==
  /\ JoinDone
  /\ last.pre.currentRoom[last.s] # NoRoom
  /\ last.s \in RoomSockets(last.pre.channelMembers, last.pre.currentRoom[last.s])
  /\ last.s \in RoomSockets(channelMembers, LastRoom)


\* ---- helpers of the claims about optimistic sends
\* the entries of the sender's list that stand for send sd: the temp entry and the
\* entry of the message the server stored for it
EntriesOf(sd) ==
  {i \in 1..Len(messages[sd.client][sd.key]) :
     messages[sd.client][sd.key][i].id \in {sd.tempId, sd.serverId}}

\* the server accepted send sd, and its broadcast and its ack have both been reduced
Settled(sd) ==
  /\ sd.handled /\ sd.acked /\ sd.serverId # NoId
  /\ \A i \in 1..Len(inbox[sd.client]) : inbox[sd.client][i].cb # sd.tempId

\* C7 (as claimed): once the broadcast and the ack of an accepted optimistic send are
\* both reduced, the sender's list holds exactly one entry for the send.
C7_OneEntryPerSend ==
  \A i \in 1..Len(sends) : Settled(sends[i]) => Cardinality(EntriesOf(sends[i])) = 1

\* ---- helpers of the claims about the ledger's callers
\* the last event was a server-message that addMessage accepted
ServerMessageAccepted == last.ev = "server-message" /\ last.inserted # NoId

\* C8 (as amended): an accepted server-message is stored under an id the server
\* generated, never under its tempId; the room broadcast and the ack both carry the
\* message as stored under that id, and the ack returns the tempId beside it.
C8_StoredUnderServerId ==
  ServerMessageAccepted =>
     /\ last.inserted # last.tempId
     /\ \A i \in 1..Len(out) :
           /\ out[i].ev \in {"message", "ack"} =>
                 /\ out[i].message = rowById(rows, last.inserted)
                 /\ out[i].message # NullRow => out[i].message.id = last.inserted
           /\ out[i].ev = "ack" => out[i].ok /\ out[i].tempId = last.tempId
     /\ \E i, j \in 1..Len(out) : i < j /\ out[i].ev = "message" /\ out[j].ev = "ack"

\* C8 witness: a server-message with a tempId was stored, broadcast and acknowledged
C8_Witness ==
  /\ ServerMessageAccepted
  /\ last.tempId \in ClientIds
  /\ rowById(rows, last.inserted) # NullRow
  /\ \E i \in 1..Len(out) : out[i].ev = "ack" /\ out[i].ok /\ out[i].message # NullRow

\* C8 (as claimed): the message of an accepted server-message is stored, broadcast and
\* acknowledged under its tempId.
C8_TempIdIsCanonical ==
  ServerMessageAccepted =>
     /\ last.inserted = last.tempId
     /\ \A i \in 1..Len(out) :
           out[i].ev \in {"message", "ack"} => out[i].message.id = last.tempId

\* ---- helpers of the claims about signaling
\* the last event was a p2p-ready that passed the handler's checks
ReadyDone ==
  /\ last.ev = "p2p-ready"
  /\ LastRoom \in Rooms
  /\ last.pre.currentRoom[last.s] = LastRoom

\* the other sockets present in the room of the p2p-ready
ReadyPeers == RoomSockets(last.pre.channelMembers, LastRoom) \ {last.s}

\* a p2p-init with this initiator flag was sent to recipient, naming peer
InitSent(recipient, peer, flag) ==
  \E i \in 1..Len(out) : /\ out[i].ev = "p2p-init" /\ recipient \in out[i].to
                         /\ out[i].peerId = peer /\ out[i].initiator = flag

\* C9 (as amended): on a p2p-ready from N, for every other socket P of the room, the
\* p2p-init sent to P (naming N) has initiator = true and the p2p-init sent to N
\* (naming P) has initiator = false.
C9_ExistingPeerIsInitiator ==
  ReadyDone =>
     \A peer \in ReadyPeers :
        /\ InitSent(peer, last.s, TRUE) /\ ~InitSent(peer, last.s, FALSE)
        /\ InitSent(last.s, peer, FALSE) /\ ~InitSent(last.s, peer, TRUE)

\* C9 witness: a p2p-ready handled while another socket was in the room
C9_Witness ==
  /\ ReadyDone
  /\ ReadyPeers # {}
  /\ \E peer \in ReadyPeers : InitSent(peer, last.s, TRUE)

\* C9 (as claimed): the p2p-init sent to N has initiator = true and the p2p-init sent
\* to each P has initiator = false.
C9_ReadySocketIsInitiator ==
  ReadyDone =>
     \A peer \in ReadyPeers :
        /\ InitSent(last.s, peer, TRUE)
        /\ InitSent(peer, last.s, FALSE)

\* C10 (as amended): the handling of one p2p-ready sends at most one p2p-init with
\* initiator = true per ordered pair (recipient, named peer), each to another socket
\* of the room and naming the ready socket.
C10_OneInitiatorPerReady ==
  /\ \A pr \in Sockets \X Sockets : InitTrueIn(out, pr[1], pr[2]) <= 1
  /\ \A i \in 1..Len(out) :
        (out[i].ev = "p2p-init" /\ out[i].initiator) =>
           /\ ReadyDone
           /\ out[i].peerId = last.s
           /\ out[i].to \subseteq ReadyPeers

\* C10 witness: a second p2p-ready of the same socket, handled while the same peer was
\* still in the room
C10_Witness ==
  /\ ReadyDone
  /\ \E peer \in ReadyPeers :
        /\ initTrue[<<peer, last.s>>] >= 2
        /\ InitTrueIn(out, peer, last.s) = 1

\* C10 (as claimed): over all p2p-ready events, no ordered pair (recipient, named
\* peer) is sent more than one p2p-init with initiator = true.
C10_OneInitiatorEver ==
  \A pr \in Sockets \X Sockets : initTrue[pr] <= 1

\* ---- C11
\* the sockets the last handler delivered a p2p-signal to
SignalDeliveredTo ==
  UNION {out[i].to : i \in {j \in 1..Len(out) : out[j].ev = "p2p-signal"}}

\* C11 (as claimed): a p2p-signal from F is delivered to its target only if F and the
\* target are members of the same room.
C11_SignalOnlyWithinRoom ==
  last.ev = "p2p-signal" =>
     \A t \in SignalDeliveredTo :
        /\ currentRoom[last.s] # NoRoom
        /\ currentRoom[t] = currentRoom[last.s]

\* ---- C12
\* the last event closed the sessions of socket last.s: it left its room, switched
\* room, disconnected, or sent p2p-teardown for its current room
ClosedSessions ==
  \/ LeftDone
  \/ /\ last.ev = "p2p-teardown"
     /\ last.pre.currentRoom[last.s] # NoRoom
     /\ last.pre.currentRoom[last.s] = LastRoom

\* the last handler sent socket p a p2p-teardown naming peer
TeardownSent(p, peer) ==
  \E i \in 1..Len(out) : /\ out[i].ev = "p2p-teardown" /\ p \in out[i].to
                         /\ out[i].peerId = peer

\* C12: when a socket leaves its room, switches room, disconnects or sends
\* p2p-teardown for its current room, every socket still connected that a p2p-init
\* had introduced to it is sent a p2p-teardown naming it.
C12_TeardownReachesIntroducedPeers ==
  ClosedSessions =>
     \A p \in Sockets \ {last.s} :
        (last.s \in last.intro[p] /\ status[p] = "connected") => TeardownSent(p, last.s)

\* C12 witness: a socket with an introduced peer left its room by a room switch, and
\* the peer was sent the teardown
C12_Witness ==
  /\ JoinDone
  /\ ClosedSessions
  /\ \E p \in Sockets \ {last.s} :
        /\ last.s \in last.intro[p]
        /\ status[p] = "connected"
        /\ TeardownSent(p, last.s)

\* ---- C13
\* socket s is in none of the server's tables
Forgotten(s) ==
  /\ \A r \in Rooms : s \notin RoomSockets(channelMembers, r)
  /\ ~MapHas(clients, s)
  /\ \A i \in 1..Len(socketsByUser) : ~SetHas(socketsByUser[i].v, s)

\* C13: once the disconnect of a socket has been handled, the socket is in no
\* channelMembers set, not in clients and not in socketsByUser, and the handler has
\* sent a p2p-teardown naming it to the other sockets of its last room.
C13_DisconnectCleansUp ==
  /\ \A s \in Sockets : status[s] = "disconnected" => Forgotten(s)
  /\ (last.ev = "disconnect" /\ last.pre.currentRoom[last.s] # NoRoom) =>
        \A p \in RoomSockets(last.pre.channelMembers, last.pre.currentRoom[last.s])
                   \ {last.s} : TeardownSent(p, last.s)

\* C13 witness: a socket that shared its room with another socket has disconnected
C13_Witness ==
  /\ last.ev = "disconnect"
  /\ last.pre.currentRoom[last.s] # NoRoom
  /\ MapHas(last.pre.clients, last.s)
  /\ Forgotten(last.s)
  /\ \E p \in RoomSockets(last.pre.channelMembers, last.pre.currentRoom[last.s])
                \ {last.s} : TeardownSent(p, last.s)

\* ---- C14
\* C14 (as claimed): every ok ack of a server-message or store-message carries the
\* stored message, and that message is a row of the ledger when the ack is sent.
C14_OkAckCarriesStoredMessage ==
  last.ev \in {"server-message", "store-message"} =>
     \A i \in 1..Len(out) :
        (out[i].ev = "ack" /\ out[i].ok) =>
           /\ out[i].message # NullRow
           /\ rowById(rows, out[i].message.id) = out[i].message

\* ------------------------------------------------------------ reading
Min(a, b) == IF a <= b THEN a ELSE b

\* a read was answered last, and the list it returned
ReadDone == last.ev = "get-messages"

Listed == out[1].list

\* rowids of the rows of the channel that was read
ReadIdx == {i \in 1..Len(rows) : /\ rows[i].serverId = last.serverId
                                 /\ rows[i].channelId = last.channelId}

\* the rowid of the k-th message of the list
ListedPos(k) == CHOOSE i \in 1..Len(rows) : rows[i].id = Listed[k].id

\* the list runs from older to newer: by timestamp, by insertion among equal timestamps
ListedOldestFirst ==
  \A k \in 1..(Len(Listed) - 1) : TsBefore(rows, ListedPos(k), ListedPos(k + 1))

\* every row of the channel that the list leaves out is older than all it holds
ListedMostRecent ==
  \A i \in ReadIdx \ {ListedPos(k) : k \in 1..Len(Listed)} :
     Len(Listed) > 0 /\ TsBefore(rows, i, ListedPos(1))

\* C15 (as claimed): for every limit, getMessages returns at most
\* min(limit, MAX_MESSAGES_PER_CHANNEL) messages, the most recent ones, ordered from
\* oldest to newest.
C15_AtMostLimitForEveryLimit ==
  ReadDone =>
    /\ Len(Listed) <= Min(last.limit, MAX_MESSAGES_PER_CHANNEL)
    /\ ListedOldestFirst
    /\ ListedMostRecent

\* the number of rows getMessages asks for: a limit of 0 counts as the cap, a
\* negative limit as 1
LimitRead ==
  IF last.limit = 0 THEN MAX_MESSAGES_PER_CHANNEL
  ELSE IF last.limit < 0 THEN 1
  ELSE Min(last.limit, MAX_MESSAGES_PER_CHANNEL)

\* C15 (amended): for a limit of at least 1, getMessages returns the
\* min(limit, MAX_MESSAGES_PER_CHANNEL) most recent messages of the channel (all of
\* them when it holds fewer), ordered from oldest to newest; a limit of 0 is read as
\* MAX_MESSAGES_PER_CHANNEL and a negative limit as 1.
C15_MostRecentUpToLimit ==
  ReadDone =>
    /\ Len(Listed) = Min(LimitRead, Cardinality(ReadIdx))
    /\ ListedOldestFirst
    /\ ListedMostRecent

\* a read with limit 2 of a full channel returned its two newest messages, which
\* differ in timestamp
C15_Witness ==
  /\ ReadDone
  /\ last.limit = 2
  /\ Cardinality(ReadIdx) = MAX_MESSAGES_PER_CHANNEL
  /\ Len(Listed) = 2
  /\ Listed[1].timestamp < Listed[2].timestamp

\* C16: messages are ordered by a timestamp the server assigns (every row inserted
\* carries the server's clock value of its insertion), and a read lists messages of
\* equal timestamp in insertion order.
C16_ServerTimestampTiesByInsertion ==
  /\ (last.inserted # NoId /\ rowById(rows, last.inserted) # NullRow)
        => rowById(rows, last.inserted).timestamp = now
  /\ ReadDone =>
        \A k \in 1..(Len(Listed) - 1) :
           Listed[k].timestamp = Listed[k + 1].timestamp => ListedPos(k) < ListedPos(k + 1)

\* ------------------------------------------------------ unknown channels
\* the event handled last named a (serverId, channelId) that is no channel
UnknownChannel == <<last.serverId, last.channelId>> \notin channels

\* a store-message that reached addMessage was handled last
AddCalled == last.ev = "store-message" /\ last.serverId # "" /\ last.channelId # ""

\* the caller of addMessage was told of a failure
AddFailed ==
  /\ last.inserted = NoId
  /\ \E i \in 1..Len(out) : out[i].ev = "ack" /\ ~out[i].ok /\ out[i].error # ""

\* no row is stored under the channel named last
NothingStored == \A i \in 1..Len(rows) : rows[i].channelId # last.channelId

\* C17 (as claimed): for a (serverId, channelId) that is no channel both ledger
\* operations fail: addMessage throws and stores nothing, and getMessages fails
\* rather than returning a list.
C17_BothFailOnUnknownChannel ==
  /\ (AddCalled /\ UnknownChannel) => (AddFailed /\ NothingStored)
  /\ (ReadDone /\ UnknownChannel) => (~out[1].ok /\ out[1].error # "")

\* C17 (amended): for a (serverId, channelId) that is no channel addMessage throws
\* and stores nothing, while getMessages does not fail: it returns the empty list.
C17_AddFailsReadIsEmpty ==
  /\ (AddCalled /\ UnknownChannel) => (AddFailed /\ NothingStored)
  /\ (ReadDone /\ UnknownChannel) => (out[1].ok /\ Listed = <<>> /\ NothingStored)

\* a store-message for an unknown channel was refused while the ledger holds the
\* messages of other channels
C17_Witness ==
  /\ AddCalled
  /\ UnknownChannel
  /\ AddFailed
  /\ Len(rows) >= MAX_MESSAGES_PER_CHANNEL

\* ------------------------------------------------------------ typing
\* the server has just broadcast a typing-update for the room user u typed in,
\* whose typers do not include u
TypingUpdateWithout(u) ==
  \E i \in 1..Len(out) :
     /\ out[i].ev = "typing-update"
     /\ out[i].room = typing[u].room
     /\ \A k \in 1..Len(out[i].members) : out[i].members[k].userId # u

\* C18: after a typing-start of user u, the k-th typing event of u, that no
\* typing-start or typing-stop of u follows, the server eventually broadcasts a
\* typing-update for that room whose typers no longer contain u.
C18_TypingExpires ==
  \A u \in Users : \A k \in 1..MaxTyping :
     []((typing[u].n = k /\ typing[u].room # NoRoom)
          => <>(typing[u].n # k \/ TypingUpdateWithout(u)))

\* ------------------------------------------------------------ rejections
\* the payload handled last lacks a field its handler requires
MissingFields ==
  \/ last.serverId = ""
  \/ last.channelId = ""
  \/ last.ev \in {"server-message", "store-message"}
       /\ last.content = "" /\ ~last.hasAttachments

\* the event handled last is one its handler rejects: a join-channel with a missing
\* field or for an unknown channel, a server-message with a missing field or for a
\* room the sender is not in, a store-message with a missing field or for an unknown
\* channel
Rejected ==
  \/ last.ev = "join-channel" /\ (MissingFields \/ UnknownChannel)
  \/ last.ev = "server-message"
       /\ (MissingFields \/ last.pre.currentRoom[last.s] # LastRoom)
  \/ last.ev = "store-message" /\ (MissingFields \/ UnknownChannel)

\* the handler emitted nothing but, when an ack was asked for, {ok: false, error}
\* to the sender
OnlyErrorAck ==
  IF last.ack
  THEN /\ Len(out) = 1
       /\ out[1].ev = "ack" /\ out[1].to = {last.s}
       /\ ~out[1].ok /\ out[1].error # ""
  ELSE out = <<>>

\* C19: a join-channel, server-message or store-message that is rejected is answered
\* through its ack with {ok: false, error} and changes nothing: membership, current
\* rooms and the other server state and the ledger are as before the event, and
\* nothing is broadcast.
C19_RejectedChangesNothing ==
  [][Rejected' => (/\ OnlyErrorAck'
                   /\ ServerState' = ServerState
                   /\ rows' = rows
                   /\ joined' = joined)]_vars

\* a server-message for a known channel the sender has not joined was refused by ack
\* while messages had been stored before
C19_Witness ==
  /\ Rejected
  /\ last.ev = "server-message"
  /\ ~MissingFields /\ ~UnknownChannel
  /\ last.ack /\ OnlyErrorAck
  /\ addCount > 1

\* ------------------------------------------------------------ identity
\* the user of socket s cannot be resolved: the users table has no row for it
Unresolvable(s) == userVersion[UserOf(s)] = 0

\* the handshake handled last lacks the cookie, a live session or the user
BadHandshake ==
  /\ last.ev = "handshake"
  /\ (~last.cookie \/ UserOf(last.s) \notin sessions \/ Unresolvable(last.s))

\* socket s takes no part in the server's state
NotServed(s) ==
  /\ Forgotten(s)
  /\ currentRoom[s] = NoRoom
  /\ \A r \in Rooms : s \notin ioRooms[r]

\* C20: a handshake without the session cookie, a live session or the user is
\* refused, and a refused socket is never served; a connection whose user cannot be
\* resolved when connection or register is handled is disconnected and is then in no
\* membership set, not in clients and not in socketsByUser.
C20_NoIdentityNoService ==
  /\ BadHandshake => status[last.s] = "refused"
  /\ \A s \in Sockets : status[s] \in {"offline", "refused"} => NotServed(s)
  /\ (last.ev \in {"connection", "register"} /\ Unresolvable(last.s)) =>
        (status[last.s] = "disconnected" /\ NotServed(last.s))

\* a socket that sat in a room with another socket lost its user, sent register and
\* was disconnected, while another handshake had been refused
C20_Witness ==
  /\ last.ev = "register"
  /\ Unresolvable(last.s)
  /\ last.pre.currentRoom[last.s] # NoRoom
  /\ status[last.s] = "disconnected"
  /\ NotServed(last.s)
  /\ \E s \in Sockets : status[s] = "refused"

\* ------------------------------------------------------------ profiles
\* the presence-update events of the last handler sent to room r
PresenceSent(r) ==
  {i \in 1..Len(out) : out[i].ev = "presence-update" /\ out[i].room = r}

\* C21: once a register of socket s is handled, the profile cached for s and the
\* user socket.data holds for s (the author of its later messages) are the stored
\* profile of its user, and, when s is in a room, a presence-update is sent to that
\* room whose entry for the user carries the stored profile.
C21_RegisterRefreshesProfile ==
  (last.ev = "register" /\ status[last.s] = "connected") =>
    /\ MapHas(clients, last.s)
    /\ MapGet(clients, last.s).version = userVersion[UserOf(last.s)]
    /\ socketUser[last.s] = userVersion[UserOf(last.s)]
    /\ currentRoom[last.s] # NoRoom =>
          /\ PresenceSent(currentRoom[last.s]) # {}
          /\ \A i \in PresenceSent(currentRoom[last.s]) :
                \E k \in 1..Len(out[i].members) :
                   /\ out[i].members[k].userId = UserOf(last.s)
                   /\ out[i].members[k].version = userVersion[UserOf(last.s)]

\* ------------------------------------------------------------ fan-out
\* the 'message' events the last handler emitted
MessageEvents == {i \in 1..Len(out) : out[i].ev = "message"}

\* C22: the sockets subscribed to a room's broadcasts are always the sockets of the
\* room's membership, and an accepted server-message is emitted as one 'message'
\* event whose recipients are exactly the members of its room, the sender included.
C22_FanOutMatchesMembership ==
  /\ \A r \in Rooms : ioRooms[r] = RoomSockets(channelMembers, r)
  /\ ServerMessageAccepted =>
        /\ Cardinality(MessageEvents) = 1
        /\ \A i \in MessageEvents :
              /\ out[i].to = RoomSockets(channelMembers, LastRoom)
              /\ last.s \in out[i].to
              /\ out[i].message.id = last.inserted

\* a server-message was fanned out to a room of two sockets while a third socket is
\* connected elsewhere
C22_Witness ==
  /\ ServerMessageAccepted
  /\ \E i \in MessageEvents :
        /\ Cardinality(out[i].to) = 2
        /\ \E s \in Sockets : status[s] = "connected" /\ s \notin out[i].to

\* ------------------------------------------------------------ ordering
\* pairs of sends of one client to one room, the first submitted before the second,
\* both accepted by the server
OrderedSends ==
  {p \in (1..Len(sends)) \X (1..Len(sends)) :
     /\ p[1] < p[2]
     /\ sends[p[1]].client = sends[p[2]].client
     /\ sends[p[1]].key = sends[p[2]].key
     /\ sends[p[1]].serverId # NoId /\ sends[p[2]].serverId # NoId}

\* positions of the 'message' packet carrying message id in the queue to socket d
InboxPos(d, id) ==
  {k \in 1..Len(inbox[d]) : inbox[d][k].e.ev = "message" /\ inbox[d][k].e.message.id = id}

\* positions of the row with this id in the ledger
RowPos(id) == {k \in 1..Len(rows) : rows[k].id = id}

\* C23: when one connection submits server-message m1 before m2 for one room and both
\* are accepted, the ledger stores m1 before m2, and no socket is handed m2 before
\* m1: m1 is ahead of m2 in every queue that holds both, and m1 is not still queued
\* to a socket that has taken m2.
C23_SameSourceOrder ==
  \A p \in OrderedSends :
     /\ \A a \in RowPos(sends[p[1]].serverId), b \in RowPos(sends[p[2]].serverId) : a < b
     /\ \A d \in Sockets :
           /\ \A a \in InboxPos(d, sends[p[1]].serverId),
                 b \in InboxPos(d, sends[p[2]].serverId) : a < b
           /\ HasId(messages[d][sends[p[2]].key], sends[p[2]].serverId)
                 => InboxPos(d, sends[p[1]].serverId) = {}

\* two messages of socket 1 were accepted; another member of the room has taken both,
\* in order
C23_Witness ==
  \E p \in OrderedSends : \E d \in Sockets \ {sends[p[1]].client} :
     messages[d][sends[p[1]].key]
       = <<FromServer(rowById(rows, sends[p[1]].serverId)),
           FromServer(rowById(rows, sends[p[2]].serverId))>>

\* ------------------------------------------------------------ atomic appends
\* C24: whatever the order in which the callers' appends to a channel are handled,
\* after k appends the channel holds exactly min(k0 + k, MAX_MESSAGES_PER_CHANNEL)
\* messages, k0 being its initial count: appended[c] lists the k0 initial rows and
\* the k rows inserted since.
C24_ExactCountAfterAppends ==
  \A c \in {"c1", "c2"} :
     channelCount(rows, c) = Min(Len(appended[c]), MAX_MESSAGES_PER_CHANNEL)

\* two appends to a channel that was one below the cap: the first filled it, the
\* second made it prune
C24_Witness ==
  /\ Len(appended["c1"]) = MAX_MESSAGES_PER_CHANNEL + 1
  /\ channelCount(rows, "c1") = MAX_MESSAGES_PER_CHANNEL
  /\ addCount = 2
  /\ last.inserted # NoId

\* ------------------------------------------------ attachments: SpecAttach
\* store.createUpload as POST /api/uploads calls it: a new row of the attachments
\* table with the uploader's id, bound to no message
createUpload(ups, id, uploaderId) ==
  [ups EXCEPT ![id] = [uploader_id |-> uploaderId, message_id |-> NoId]]

\* the attachments payload of a server-message: no list, or a list naming "a1"
attachmentList(hasAttachments) == IF hasAttachments THEN <<"a1">> ELSE <<>>

\* POST /api/uploads by a signed-in user with a file: nanoid() gives the id
Upload(u, id) ==
  /\ u \in sessions /\ findById(u)
  /\ uploads[id] = NoUpload
  /\ uploads' = createUpload(uploads, id, u)
  /\ out' = <<[Ev("response", {}) EXCEPT !.ok = TRUE]>>
  /\ last' = [LastEv("upload", NoSocket, "", "") EXCEPT !.content = id]
  /\ UNCHANGED <<rows, now, nextId, appended, addCount, servers, channels, roomVars,
                 joined, p2pVars, clientVars>>

\* users upload files; the sockets in c1 (1, of u1) and c2 (2, of u2) send messages
\* with text, with an attachment, with both
NextAttach ==
  \/ \E u \in Users, id \in AttachmentIds : Upload(u, id)
  \/ \E s \in {1, 2}, c \in {"c1", "c2"}, content \in {"hi", ""}, att \in BOOLEAN,
        ack \in BOOLEAN : ServerMessage(s, "sv1", c, content, att, 9001, ack)
  \/ Tick

SpecAttach == InitP2P /\ [][NextAttach]_vars

\* the attachment ids the server-message handled last passed to addMessage
ReferencedUploads ==
  IF last.ev = "server-message" /\ currentRoom[last.s] = LastRoom
  THEN {attachmentList(last.hasAttachments)[i] :
          i \in 1..Len(attachmentList(last.hasAttachments))}
  ELSE {}

\* the message handled last names an attachment another user uploaded, or one that
\* is bound to a message already
ConflictingAppend ==
  \E a \in ReferencedUploads :
     /\ uploads[a] # NoUpload
     /\ \/ uploads[a].uploader_id # UserOf(last.s)
        \/ uploads[a].message_id # NoId

\* C25: an append that references an attachment bound to another message, or
\* uploaded by another user, fails: the ack carries an error, no row is inserted and
\* no message event is sent.
C25_AttachmentConflictRejected ==
  ConflictingAppend =>
     /\ last.inserted = NoId
     /\ \A i \in 1..Len(out) : out[i].ev = "ack" /\ ~out[i].ok

\* ---------------------------------------------------------- immutability
\* the append handled in this step names an id: the one a row of the ledger has
DuplicateAppend ==
  /\ last'.ev \in {"store-message", "rest-post-message"}
  /\ last'.id # NoId
  /\ \E i \in 1..Len(rows) : rows[i].id = last'.id

\* the step evicted row r: it inserted into r's channel, which was full
EvictedBy(r) ==
  /\ last'.inserted # NoId
  /\ r.channelId = last'.channelId
  /\ channelCount(rows, r.channelId) = MAX_MESSAGES_PER_CHANNEL

\* C26: a stored message never changes and leaves the ledger only by retention
\* eviction; an append whose id is stored already is answered with an error, inserts
\* nothing and leaves every row as it was.
C26_ImmutableOncePersisted ==
  [][/\ \A i \in 1..Len(rows) :
          \/ \E j \in 1..Len(rows') : rows'[j] = rows[i]
          \/ /\ \A j \in 1..Len(rows') : rows'[j].id # rows[i].id
             /\ EvictedBy(rows[i])
     /\ DuplicateAppend =>
          /\ rows' = rows
          /\ last'.inserted = NoId
          /\ \A i \in 1..Len(out') : ~out'[i].ok /\ out'[i].error # ""
          /\ last'.ev = "store-message" /\ last'.ack => OnlyErrorAck']_vars

\* a store-message naming the id of a stored row was refused by ack, after an append
\* that evicted a row of the full channel
C26_Witness ==
  /\ last.ev = "store-message" /\ last.ack
  /\ last.id # NoId /\ last.inserted = NoId
  /\ ~MissingFields /\ ~UnknownChannel
  /\ \E i \in 1..Len(rows) : rows[i].id = last.id /\ rows[i].channelId = last.channelId
  /\ OnlyErrorAck
  /\ Len(appended["c1"]) = MAX_MESSAGES_PER_CHANNEL + 1
  /\ channelCount(rows, "c1") = MAX_MESSAGES_PER_CHANNEL

\* --------------------------------------- servers and channels: SpecCreate
NewServerIds  == {"sv2", "sv3"}     \* the values nanoid() gives to created servers
NewChannelIds == {"c3", "c4"}       \* the values nanoid() gives to created channels
Names == {"", " ", "general"}       \* body.name: missing, blank, a name
trim(name) == IF name = " " THEN "" ELSE name

Response(ok, error) == <<[Ev("response", {}) EXCEPT !.ok = ok, !.error = error]>>

\* app.post('/api/servers'): result [servers, created, out]; user is req.user as
\* attachUser left it ("" when the request has no valid session)
createServerRoute(srvs, user, name, id) ==
  IF name = "" \/ trim(name) = ""
  THEN [servers |-> srvs, created |-> "", out |-> Response(FALSE, "Server name is required")]
  ELSE [servers |-> srvs \cup {id}, created |-> id, out |-> Response(TRUE, "")]

\* app.post('/api/servers/:serverId/channels'): result [channels, created, out]
createChannelRoute(srvs, chans, user, serverId, name, id) ==
  IF name = "" \/ trim(name) = ""
  THEN [channels |-> chans, created |-> "", out |-> Response(FALSE, "Channel name is required")]
  ELSE IF serverId \notin srvs
  THEN [channels |-> chans, created |-> "", out |-> Response(FALSE, "Server not found")]
  ELSE [channels |-> chans \cup {<<serverId, id>>}, created |-> id,
        out |-> Response(TRUE, "")]

\* auth.attachUser: req.user of a request is a user whose session is live, or none
RequestUsers == {""} \cup {u \in Users : u \in sessions /\ findById(u)}

CreateServer(user, name, id) ==
  /\ user \in RequestUsers
  /\ id \notin servers
  /\ \E r \in {createServerRoute(servers, user, name, id)} :
        /\ servers' = r.servers
        /\ out' = r.out
        /\ last' = [LastEv("create-server", NoSocket, "", "") EXCEPT
                      !.cookie = (user # ""), !.content = r.created]
  /\ UNCHANGED <<rows, now, nextId, appended, addCount, uploads, channels, roomVars,
                 joined, p2pVars, clientVars>>

CreateChannel(user, serverId, name, id) ==
  /\ user \in RequestUsers
  /\ \A t \in channels : t[2] # id
  /\ \E r \in {createChannelRoute(servers, channels, user, serverId, name, id)} :
        /\ channels' = r.channels
        /\ out' = r.out
        /\ last' = [LastEv("create-channel", NoSocket, serverId, "") EXCEPT
                      !.cookie = (user # ""), !.content = r.created]
  /\ UNCHANGED <<rows, now, nextId, appended, addCount, uploads, servers, roomVars,
                 joined, p2pVars, clientVars>>

\* signed-in users and requests without a session create servers, and channels in
\* the seeded server, in created servers and in a server that does not exist; a
\* socket joins the seeded channels
NextCreate ==
  \/ \E user \in Users \cup {""}, name \in Names, id \in NewServerIds :
        CreateServer(user, name, id)
  \/ \E user \in Users \cup {""}, serverId \in {"sv1", "sv2", "svX"}, name \in Names,
        id \in NewChannelIds : CreateChannel(user, serverId, name, id)
  \/ \E t \in Targets : JoinChannel(3, t[1], t[2], TRUE)

SpecCreate == InitP2P /\ [][NextCreate]_vars

\* C27: POST /api/servers and POST /api/servers/:serverId/channels of a request
\* without a valid session are answered 'Authentication required' and create nothing.
C27_CreateRequiresAuth ==
  (last.ev \in {"create-server", "create-channel"} /\ ~last.cookie) =>
     /\ out = Response(FALSE, "Authentication required")
     /\ last.content = ""

\* ------------------------------------------------------------ idempotence
\* the event handled last is a leave-channel or a disconnect of a socket that was
\* in no room
LeftNoRoom ==
  /\ last.ev \in {"leave-channel", "disconnect"}
  /\ last.pre.currentRoom[last.s] = NoRoom

\* rooms, memberships and current rooms are as before the event handled last
RoomsAsBefore ==
  /\ currentRoom = last.pre.currentRoom
  /\ ioRooms = last.pre.ioRooms
  /\ channelMembers = last.pre.channelMembers

\* the connection registry is as before the event handled last
RegistryAsBefore ==
  /\ clients = last.pre.clients
  /\ socketsByUser = last.pre.socketsByUser
  /\ socketUser = last.pre.socketUser

\* C28 as stated: a leave-channel or disconnect of a connection in no room changes
\* no state and emits nothing.
C28_NoRoomChangesNothing ==
  LeftNoRoom => (out = <<>> /\ RoomsAsBefore /\ RegistryAsBefore)

\* C28 amended: a leave-channel or disconnect of a connection in no room emits
\* nothing and leaves every room, membership and current room as it was; the
\* leave-channel changes nothing else either, the disconnect removes the connection
\* from clients and from its user's socket set.
C28_NoRoomLeavesRoomsAlone ==
  LeftNoRoom =>
     /\ out = <<>>
     /\ RoomsAsBefore
     /\ socketUser = last.pre.socketUser
     /\ last.ev = "leave-channel" => ServerState = last.pre
     /\ last.ev = "disconnect" =>
          /\ clients = MapDelete(last.pre.clients, last.s)
          /\ \A u \in Users :
                Range(IF MapHas(socketsByUser, u) THEN MapGet(socketsByUser, u) ELSE <<>>)
                = Range(IF MapHas(last.pre.socketsByUser, u)
                           THEN MapGet(last.pre.socketsByUser, u) ELSE <<>>)
                  \ (IF u = UserOf(last.s) THEN {last.s} ELSE {})

\* a socket that was in no room disconnected while another connection of its user
\* sat in a room
C28_Witness ==
  /\ LeftNoRoom
  /\ last.ev = "disconnect"
  /\ MapHas(last.pre.clients, last.s)
  /\ \E t \in Sockets : /\ t # last.s /\ UserOf(t) = UserOf(last.s)
                        /\ currentRoom[t] # NoRoom

\* ------------------------------------------------------ presence snapshot
\* the userIds of the room's membership Map
MemberUsers(room) ==
  IF MapHas(channelMembers, room) THEN MapKeys(MapGet(channelMembers, room)) ELSE {}

\* the list has one entry for each user of the room's membership and no other entry
OnePerMember(members, room) ==
  /\ \A i, j \in 1..Len(members) : members[i].userId = members[j].userId => i = j
  /\ {members[i].userId : i \in 1..Len(members)} = MemberUsers(room)

\* C29: the presence snapshot of a room, as getPresenceMembers computes it and as the
\* presence-update events and the join ack carried it, has exactly one member for each
\* userId of the room's membership, however many connections the user has there.
C29_SnapshotOnePerUser ==
  /\ \A r \in Rooms : OnePerMember(getPresenceMembers(ServerState, r).members, r)
  /\ \A i \in 1..Len(out) :
        /\ out[i].ev = "presence-update" => OnePerMember(out[i].members, out[i].room)
        /\ (out[i].ev = "ack" /\ out[i].ok /\ last.ev = "join-channel")
              => OnePerMember(out[i].members, LastRoom)

\* a join ack and the presence-update of the room list two users, one of which has
\* two connections in the room
C29_Witness ==
  /\ last.ev = "join-channel" /\ currentRoom[last.s] = LastRoom
  /\ \E i \in 1..Len(out) : out[i].ev = "ack" /\ out[i].ok /\ Len(out[i].members) = 2
  /\ \E i \in 1..Len(out) :
        /\ out[i].ev = "presence-update" /\ out[i].room = LastRoom
        /\ Len(out[i].members) = 2
  /\ Cardinality(ioRooms[LastRoom]) = 3

\* ------------------------------------------------------ failed sends
\* in this step client c takes an ack that reports an error
TakesErrorAck(c) ==
  /\ last'.ev = "client-receive" /\ last'.s = c
  /\ Len(inbox[c]) > 0
  /\ Head(inbox[c]).e.ev = "ack"
  /\ ~Head(inbox[c]).e.ok /\ Head(inbox[c]).e.error # ""

\* entry after is entry before marked with the error and no longer pending
MarkedFailed(before, after, error) ==
  after = [before EXCEPT !.error = error, !.pending = FALSE]

\* C30: when the ack of a server-message reports an error, the reducer marks the
\* entry whose id is the send's temp id with that error and pending = false; the
\* list keeps its length and order, every other entry is unchanged, and so are the
\* lists of the other channels and of the other clients.
C30_ErrorMarksOnlyTempEntry ==
  [][\A c \in Sockets : TakesErrorAck(c) =>
        /\ \A d \in Sockets \ {c} : messages'[d] = messages[d]
        /\ \A k \in Rooms \ {Selected(c)} : messages'[c][k] = messages[c][k]
        /\ Len(messages'[c][Selected(c)]) = Len(messages[c][Selected(c)])
        /\ \A i \in 1..Len(messages[c][Selected(c)]) :
              IF messages[c][Selected(c)][i].id = Head(inbox[c]).cb
              THEN MarkedFailed(messages[c][Selected(c)][i], messages'[c][Selected(c)][i],
                                Head(inbox[c]).e.error)
              ELSE messages'[c][Selected(c)][i] = messages[c][Selected(c)][i]]_vars

\* a client took the error ack of one of its sends: the temp entry carries the error
\* and is not pending, next to another entry of the list that still is
C30_Witness ==
  /\ last.ev = "client-receive"
  /\ \E i, j \in 1..Len(messages[last.s][Selected(last.s)]) :
        /\ messages[last.s][Selected(last.s)][i].id = last.tempId
        /\ messages[last.s][Selected(last.s)][i].error # ""
        /\ ~messages[last.s][Selected(last.s)][i].pending
        /\ j # i
        /\ messages[last.s][Selected(last.s)][j].pending
  /\ \E n \in 1..Len(sends) : sends[n].tempId = last.tempId /\ sends[n].acked
                              /\ sends[n].serverId = NoId

\* ------------------------------------------- initiator designation: SpecPair
\* sockets 2 and 3 come into room c1, where socket 1 is, and the sockets announce
\* p2p-ready; no socket leaves c1, disconnects or tears its sessions down, so two
\* sockets that have met in c1 stay together
NextPair ==
  \/ \E s \in {2, 3} : JoinChannel(s, "sv1", "c1", FALSE)
  \/ \E s \in Sockets, c \in {"c1", "c2"} : P2PReady(s, "sv1", c)

SpecPair == InitP2P /\ [][NextPair]_vars

\* C31: two connections of a room are never both told initiator = true toward each
\* other, whatever p2p-ready events they send.
C31_NeverBothInitiator ==
  \A a, b \in Sockets :
     a # b => ~(initTrue[<<a, b>>] > 0 /\ initTrue[<<b, a>>] > 0)

\* -------------------------------------------------- presence after a change
\* the membership of room r is not what it was before the event handled last
MembershipChanged(r) ==
  (IF MapHas(last.pre.channelMembers, r) THEN MapGet(last.pre.channelMembers, r) ELSE <<>>)
  # (IF MapHas(channelMembers, r) THEN MapGet(channelMembers, r) ELSE <<>>)

\* the last presence-update the handler emitted for room r went to the sockets that
\* are in r now and lists the snapshot r has now
PresenceFollows(r) ==
  /\ PresenceSent(r) # {}
  /\ \E i \in PresenceSent(r) :
        /\ \A j \in PresenceSent(r) : j <= i
        /\ out[i].to = ioRooms[r]
        /\ out[i].members = getPresenceMembers(ServerState, r).members

\* C32: a handler that changes a room's membership (join, leave, room switch,
\* disconnect) emits, before it returns, a presence-update to the connections the
\* room has after the change, whose members are the room's snapshot after the change.
C32_PresenceFollowsChange ==
  \A r \in Rooms : MembershipChanged(r) => PresenceFollows(r)

\* a socket switched rooms: the room it left keeps a connection, and both rooms were
\* sent their new snapshot
C32_Witness ==
  /\ last.ev = "join-channel"
  /\ last.pre.currentRoom[last.s] \notin {NoRoom, LastRoom}
  /\ currentRoom[last.s] = LastRoom
  /\ MembershipChanged(LastRoom) /\ MembershipChanged(last.pre.currentRoom[last.s])
  /\ ioRooms[last.pre.currentRoom[last.s]] # {}
  /\ PresenceFollows(LastRoom) /\ PresenceFollows(last.pre.currentRoom[last.s])

\* ------------------------------------------------- joined/left bracketing
\* user-joined minus user-left events emitted so far for user u of room r
Balance(r, u) == BalanceAfter(last.bal, out)[<<r, u>>]

\* C33: for each (room, user) the user-joined and user-left events alternate,
\* starting with user-joined: a handler emits at most one of them for the pair, and
\* the user-joined events minus the user-left events emitted so far is 1 when the
\* user has an entry in the room's membership and 0 when it has none.
C33_JoinedLeftAlternate ==
  \A r \in Rooms, u \in Users :
     /\ Announced(out, "user-joined", r, u) + Announced(out, "user-left", r, u) <= 1
     /\ Balance(r, u) = IF u \in MemberUsers(r) THEN 1 ELSE 0

\* the last connection of a user that had joined the room twice over has left it:
\* user-left is emitted and the balance is back at 0
C33_Witness ==
  /\ last.ev \in {"leave-channel", "disconnect"}
  /\ \E r \in Rooms, t \in Sockets :
        /\ last.pre.currentRoom[last.s] = r
        /\ t # last.s /\ UserOf(t) = UserOf(last.s) /\ joined[t] = NoRoom
        /\ status[t] = "connected"
        /\ Announced(out, "user-left", r, UserOf(last.s)) = 1
        /\ last.bal[<<r, UserOf(last.s)>>] = 1
        /\ Balance(r, UserOf(last.s)) = 0
        /\ ioRooms[r] # {}

\* ---------------------------------------------- current room and membership
\* socket s is in the socket set of its user in room r's membership
InMembership(s, r) ==
  /\ MapHas(channelMembers, r)
  /\ MapHas(MapGet(channelMembers, r), UserOf(s))
  /\ s \in Range(MapGet(MapGet(channelMembers, r), UserOf(s)))

\* C34: a connected socket's currentRoom is r exactly when its id is in
\* channelMembers[r][its userId], and channelMembers holds no empty room Map and no
\* empty socket set.
C34_CurrentRoomIsMembership ==
  /\ \A s \in Sockets : status[s] = "connected" =>
        \A r \in Rooms : (currentRoom[s] = r) <=> InMembership(s, r)
  /\ \A i \in 1..Len(channelMembers) :
        /\ Len(channelMembers[i].v) > 0
        /\ \A j \in 1..Len(channelMembers[i].v) : Len(channelMembers[i].v[j].v) > 0

\* the last member of a room has just left it while a user with two connections
\* has both in another room
C34_Witness ==
  /\ last.ev \in {"leave-channel", "disconnect", "join-channel"}
  /\ last.pre.currentRoom[last.s] # NoRoom
  /\ MapHas(last.pre.channelMembers, last.pre.currentRoom[last.s])
  /\ ~MapHas(channelMembers, last.pre.currentRoom[last.s])
  /\ \E r \in Rooms, i \in 1..Len(channelMembers) :
        /\ channelMembers[i].k = r
        /\ \E j \in 1..Len(channelMembers[i].v) : Len(channelMembers[i].v[j].v) = 2

\* ------------------------------------------- sessions that end: SpecSession
\* sockets 1 (of u1, in c1) and 2 (of u2, in c2) are connected; socket 3 (of u1) has
\* not been opened
SessionServer ==
  [LedgerServer EXCEPT
     !.status = [s \in Sockets |-> IF s <= 2 THEN "connected" ELSE "offline"],
     !.socketUser = [s \in Sockets |-> IF s <= 2 THEN 1 ELSE 0],
     !.clients = [s \in 1..2 |-> [k |-> s, v |-> buildMemberFromUser(UserOf(s), 1, s)]],
     !.socketsByUser = <<[k |-> "u1", v |-> <<1>>], [k |-> "u2", v |-> <<2>>]>>]

InitSession ==
  /\ userVersion = [u \in Users |-> 1]
  /\ sessions = Users
  /\ InitSeededLedger
  /\ InitServer(SessionServer)
  /\ InitGhosts
  /\ InitClient

\* sessions end; the open connections go on registering, joining and sending; a new
\* connection of u1 is attempted with its cookie
NextSession ==
  \/ \E u \in Users : SessionEnds(u)
  \/ Handshake(3, TRUE)
  \/ Connect(3)
  \/ \E s \in Sockets : Register(s, TRUE)
  \/ \E s \in Sockets, c \in {"c1", "c2"} : JoinChannel(s, "sv1", c, TRUE)
  \/ \E s \in Sockets : ServerMessage(s, "sv1", "c1", "hi", FALSE, 9001, TRUE)
  \/ \E s \in Sockets : StoreMessage(s, "sv1", "c2", "hi", FALSE, NoId, "p2p", NoTs, TRUE)

SpecSession == InitSession /\ [][NextSession]_vars

\* the event handled last came from a connection whose user has no live session but
\* still has its row in the users table
SessionGone ==
  /\ last.s # NoSocket
  /\ UserOf(last.s) \notin sessions
  /\ userVersion[UserOf(last.s)] # 0

\* the handler answered the ack with ok: true
AckedOk == \E i \in 1..Len(out) : out[i].ev = "ack" /\ out[i].to = {last.s} /\ out[i].ok

\* C35: the session is checked at the handshake only.  A connection whose session has
\* ended since is still served: register refreshes its profile, join-channel puts it
\* in the room, server-message (in its room) and store-message append, each with an
\* ok ack and the connection staying open; a handshake with that session is refused.
C35_SessionCheckedAtHandshakeOnly ==
  SessionGone =>
     /\ last.ev \in {"register", "join-channel", "server-message", "store-message"}
          => status[last.s] = "connected"
     /\ last.ev = "register" => AckedOk /\ socketUser[last.s] = userVersion[UserOf(last.s)]
     /\ last.ev = "join-channel" => AckedOk /\ currentRoom[last.s] = LastRoom
     /\ (last.ev = "server-message" /\ last.pre.currentRoom[last.s] = LastRoom)
          => AckedOk /\ last.inserted # NoId
     /\ last.ev = "store-message" => AckedOk /\ last.inserted # NoId
     /\ (last.ev = "handshake" /\ last.cookie) => status[last.s] = "refused"

\* u1's session has ended and a new connection of u1 was refused, while the
\* connection u1 had opened before has had a message stored since
C35_Witness ==
  /\ SessionGone
  /\ last.ev = "server-message" /\ last.inserted # NoId /\ AckedOk
  /\ status[3] = "refused" /\ UserOf(last.s) = UserOf(3)
  /\ addCount = 2

\* ------------------------------------------------- whose profile is shown
\* the sockets of user u in room r's membership, in the order they were added
UserSocketSeq(cm, r, u) ==
  IF MapHas(cm, r) /\ MapHas(MapGet(cm, r), u) THEN MapGet(MapGet(cm, r), u) ELSE <<>>

\* the entry of user u in a members list (NullProfile when it has none)
EntryOf(members, u) ==
  IF \E i \in 1..Len(members) : members[i].userId = u
  THEN members[CHOOSE i \in 1..Len(members) : members[i].userId = u]
  ELSE NullProfile

\* the cached profile of the first socket of the sequence that has one
FirstCached(cl, socketIds) ==
  IF \E i \in 1..Len(socketIds) : MapHas(cl, socketIds[i])
  THEN MapGet(cl, socketIds[CHOOSE i \in 1..Len(socketIds) :
                     /\ MapHas(cl, socketIds[i])
                     /\ \A j \in 1..(i - 1) : ~MapHas(cl, socketIds[j])])
  ELSE NullProfile

\* C36: the presence entry of a user with connections in a room is the cached profile
\* of the first connection of the user's set that has one; a register by another
\* connection of the user leaves the entry as it was, in the snapshot and in the
\* presence-update the register sends.
C36_FirstConnectionProfileShown ==
  /\ \A r \in Rooms : \A u \in MemberUsers(r) :
        EntryOf(getPresenceMembers(ServerState, r).members, u)
          = FirstCached(clients, UserSocketSeq(channelMembers, r, u))
  /\ (/\ last.ev = "register" /\ status[last.s] = "connected"
      /\ currentRoom[last.s] # NoRoom
      /\ UserSocketSeq(channelMembers, currentRoom[last.s], UserOf(last.s))[1] # last.s)
     => /\ EntryOf(getPresenceMembers(ServerState, currentRoom[last.s]).members,
                   UserOf(last.s))
           = EntryOf(getPresenceMembers(last.pre, currentRoom[last.s]).members,
                     UserOf(last.s))
        /\ \A i \in PresenceSent(currentRoom[last.s]) :
              EntryOf(out[i].members, UserOf(last.s))
                = EntryOf(getPresenceMembers(last.pre, currentRoom[last.s]).members,
                          UserOf(last.s))

\* the second connection of a user in the room registered after the user's profile
\* was updated: the room's entry for the user still has the profile from before
C36_Witness ==
  /\ last.ev = "register" /\ status[last.s] = "connected"
  /\ currentRoom[last.s] # NoRoom
  /\ Len(UserSocketSeq(channelMembers, currentRoom[last.s], UserOf(last.s))) = 2
  /\ UserSocketSeq(channelMembers, currentRoom[last.s], UserOf(last.s))[2] = last.s
  /\ MapGet(clients, last.s).version = userVersion[UserOf(last.s)]
  /\ EntryOf(getPresenceMembers(ServerState, currentRoom[last.s]).members,
             UserOf(last.s)).version < userVersion[UserOf(last.s)]
  /\ \E i \in PresenceSent(currentRoom[last.s]) :
        EntryOf(out[i].members, UserOf(last.s)).version < userVersion[UserOf(last.s)]

\* ------------------------------------------- store-message and the room
\* the step handles a store-message whose payload has its fields, names a channel
\* that exists and carries no id or an id no stored row has
StoreStepAcceptable ==
  /\ last'.ev = "store-message"
  /\ last'.serverId # "" /\ last'.channelId # ""
  /\ ~(last'.content = "" /\ ~last'.hasAttachments)
  /\ <<last'.serverId, last'.channelId>> \in channels
  /\ last'.id # NoId => \A i \in 1..Len(rows) : rows[i].id # last'.id

\* the step inserted a row in the named channel under the client's id, or under the
\* fresh id when the payload had none, and acknowledged it
StoreStepAppended ==
  /\ last'.inserted = (IF last'.id # NoId THEN last'.id ELSE nextId)
  /\ appended'[last'.channelId] = Append(appended[last'.channelId], last'.inserted)
  /\ last'.ack => \E i \in 1..Len(out') : out'[i].ev = "ack" /\ out'[i].ok

\* the step is a server-message that inserted a row
ServerStepAppended == last'.ev = "server-message" /\ last'.inserted # NoId

\* C37: store-message performs no room-membership check: whatever room the sender is
\* in, a store-message with a valid payload for an existing channel inserts a row
\* under the client's id (a fresh id when there is none); a server-message inserts a
\* row only when the sender's current room is the named room; and a store-message
\* emits no 'message' event to any connection.
C37_StoreIgnoresRoom ==
  [][/\ StoreStepAcceptable => StoreStepAppended
     /\ ServerStepAppended =>
          currentRoom[last'.s] = roomKey(last'.serverId, last'.channelId)
     /\ last'.ev = "store-message" =>
          \A i \in 1..Len(out') : out'[i].ev # "message"]_vars

\* a store-message of a socket that is in no room was stored under the client's id
C37_Witness ==
  /\ last.ev = "store-message"
  /\ last.id # NoId
  /\ last.inserted = last.id
  /\ last.pre.currentRoom[last.s] = NoRoom

\* ------------------------------------------- history fetch: SpecHistory
\* the history effect of ChatApp (it runs when the channel is selected and again when
\* the user object changes): fetchMessages resolves with the channel's latest 50
\* messages and its then-callback dispatches set-history
HistoryFetched(c) ==
  /\ status[c] = "connected"
  /\ \E items \in {getMessages(rows, Selected(c)[1], Selected(c)[2], 50)} :
        messages' = [messages EXCEPT ![c] =
          messagesReducer(@, [ClientAction("set-history", Selected(c)[1], Selected(c)[2])
                                EXCEPT !.messages =
                                  [i \in 1..Len(items) |-> FromServer(items[i])]])]
  /\ out' = <<>>
  /\ last' = LastEv("set-history", c, Selected(c)[1], Selected(c)[2])
  /\ UNCHANGED <<outbox, inbox, sends, typing, composer, useP2P, roomVars, joined, ledgerVars, p2pVars>>

\* the clients of sockets 1 to 3 send in server mode while their history fetches
\* complete
NextHistory ==
  \/ \E c \in Sockets : ClientSend(c, "hi")
  \/ \E c \in Sockets : ServerReceive(c)
  \/ \E c \in Sockets : ClientReceive(c)
  \/ \E c \in Sockets : HistoryFetched(c)

SpecHistory == InitClientSpec /\ [][NextHistory]_vars

\* C38: from the optimistic add of a send until the send's ack is reduced, the list
\* of the send's channel on that client contains the optimistic entry, whatever
\* set-history actions and incoming 'message' events are reduced in between.
C38_OptimisticEntryStays ==
  \A i \in 1..Len(sends) :
     ~sends[i].acked =>
        HasId(messages[sends[i].client][sends[i].key], sends[i].tempId)

\* ------------------------------------------- composer typing: SpecComposer
\* user events the composer handles in one run
MaxInputs == 4

\* stopTyping: clears the inactivity timer; calls onTypingStop if typing is active
stopTyping(cs) ==
  [cs EXCEPT !.typingTimer = FALSE, !.typingActive = FALSE,
             !.calls = IF cs.typingActive THEN Append(@, "stop") ELSE @]

\* a plausible slip: onTypingStart is called on every bump
bumpTypingAlwaysStarts(cs) ==
  [cs EXCEPT !.typingTimer = TRUE, !.typingActive = TRUE, !.calls = Append(@, "start")]

\* bumpTyping (ChatApp passes both callbacks): restarts the inactivity timer; calls
\* onTypingStart unless typing is active already
bumpTyping(cs) ==
  [cs EXCEPT !.typingTimer = TRUE, !.typingActive = TRUE,
             !.calls = IF ~cs.typingActive THEN Append(@, "start") ELSE @]

\* canSubmit: hasAttachment and blocked (an upload in progress or failed) come from
\* the attachments state
canSubmit(cs, hasAttachment, blocked) ==
  ~cs.disabled /\ ~blocked /\ (cs.hasText \/ hasAttachment)

\* handleSubmit: nothing unless canSubmit; else onSend, the fields are cleared and
\* stopTyping
handleSubmit(cs, hasAttachment, blocked) ==
  IF ~canSubmit(cs, hasAttachment, blocked) THEN cs
  ELSE stopTyping([cs EXCEPT !.calls = Append(@, "send"), !.hasText = FALSE,
                             !.showEmojiPicker = FALSE])

\* a step of the composer changes nothing but the composer
ComposerStep(cs) ==
  /\ composer' = cs
  /\ UNCHANGED <<messages, outbox, inbox, sends, typing, useP2P, roomVars, joined,
                 ledgerVars, p2pVars, out, last>>

\* the user event counted
Input(cs) == [cs EXCEPT !.inputs = @ + 1]

\* the textarea is enabled
Editable == composer.mounted /\ ~composer.disabled /\ composer.inputs < MaxInputs

\* onChange of the textarea: the new value has text or is blank
ComposerChange(hasText) ==
  /\ Editable
  /\ ComposerStep(IF hasText THEN bumpTyping([Input(composer) EXCEPT !.hasText = TRUE])
                  ELSE stopTyping([Input(composer) EXCEPT !.hasText = FALSE]))

\* handleKeyDown: Enter without shift submits, any other key bumps if there is text
ComposerKeyDown(enter, hasAttachment, blocked) ==
  /\ Editable
  /\ ComposerStep(IF enter THEN handleSubmit(Input(composer), hasAttachment, blocked)
                  ELSE IF composer.hasText THEN bumpTyping(Input(composer))
                  ELSE Input(composer))

\* the emoji button opens and closes the picker
ComposerTogglePicker ==
  /\ composer.mounted /\ ~composer.disabled
  /\ ComposerStep([composer EXCEPT !.showEmojiPicker = ~@])

\* handleInsertEmoji: the buttons of an open picker are not disabled with the
\* composer; the value gets an emoji appended, so it has text
ComposerInsertEmoji ==
  /\ composer.mounted /\ composer.showEmojiPicker /\ composer.inputs < MaxInputs
  /\ ComposerStep(bumpTyping([Input(composer) EXCEPT !.hasText = TRUE,
                                                     !.showEmojiPicker = FALSE]))

\* the inactivity timer set by bumpTyping fires after TYPING_INACTIVITY_MS
ComposerTimeout ==
  /\ composer.typingTimer
  /\ ComposerStep(stopTyping(composer))

\* the disabled prop changes; the effect of lines 203-207 stops typing when it is set
ComposerDisabled(disabled) ==
  /\ composer.mounted /\ composer.disabled # disabled
  /\ ComposerStep(IF disabled THEN stopTyping([composer EXCEPT !.disabled = TRUE])
                  ELSE [composer EXCEPT !.disabled = FALSE])

\* ChatApp passes a new onTypingStop (its channel changed): stopTyping is a new
\* callback, so the cleanup of the effect of line 209 runs the old one
ComposerCallbacksChange ==
  /\ composer.mounted /\ composer.typingActive
  /\ ComposerStep(stopTyping(composer))

\* the composer unmounts: the cleanup of the effect of line 209 runs stopTyping
ComposerUnmount ==
  /\ composer.mounted
  /\ ComposerStep(stopTyping([composer EXCEPT !.mounted = FALSE]))

\* a composer is mounted again: new state and refs
ComposerMount ==
  /\ ~composer.mounted
  /\ ComposerStep([NewComposer EXCEPT !.calls = composer.calls,
                                      !.inputs = composer.inputs])

NextComposer ==
  \/ \E hasText \in BOOLEAN : ComposerChange(hasText)
  \/ \E enter, hasAttachment, blocked \in BOOLEAN :
        ComposerKeyDown(enter, hasAttachment, blocked)
  \/ ComposerTogglePicker
  \/ ComposerInsertEmoji
  \/ ComposerTimeout
  \/ \E disabled \in BOOLEAN : ComposerDisabled(disabled)
  \/ ComposerCallbacksChange
  \/ ComposerUnmount
  \/ ComposerMount

\* setTimeout runs its callback unless the timer is cleared
SpecComposer == InitClientSpec /\ [][NextComposer]_vars /\ WF_vars(ComposerTimeout)

\* the typing callbacks invoked so far, in order
TypingCalls == SelectSeq(composer.calls, LAMBDA c : c \in {"start", "stop"})

\* onTypingStart and onTypingStop alternate, beginning with onTypingStart
WellBracketed ==
  \A i \in 1..Len(TypingCalls) :
     TypingCalls[i] = (IF i % 2 = 1 THEN "start" ELSE "stop")

\* the latest typing callback is an onTypingStart
TypingOpen == Len(TypingCalls) % 2 = 1

\* C39: the composer's typing callbacks are well bracketed: onTypingStart and
\* onTypingStop strictly alternate beginning with onTypingStart, and every
\* onTypingStart is eventually followed by onTypingStop.
C39_TypingWellBracketed ==
  /\ []WellBracketed
  /\ \A k \in 1..(2 * MaxInputs) :
        (Len(TypingCalls) = k /\ TypingOpen) ~> (Len(TypingCalls) > k)

\* an onTypingStart was followed by an onTypingStop while the text stayed in place:
\* the inactivity timer (or a disable or a callback change) closed it, not a submit
C39_Witness ==
  /\ TypingCalls = <<"start", "stop">>
  /\ composer.calls = TypingCalls
  /\ composer.inputs = 2
  /\ composer.hasText
  /\ composer.mounted /\ ~composer.disabled

\* ------------------------------------------- client peer table: SpecPeers
\* SimplePeer instances the hook constructs in one run
MaxPeers == 3

\* the remote sockets signaling names to the client of socket 1
RemotePeers == {2, 3}

\* the SimplePeer instances the entries of peersRef hold
EntryPeers(h) == {h.peers[i].v.peer : i \in 1..Len(h.peers)}

\* tearDownAll, and the forEach / clear of lines 125-126: every entry's peer is
\* destroyed and the Map is left empty
tearDownAll(h) ==
  [h EXCEPT !.peers = <<>>, !.live = {l \in @ : l.n \notin EntryPeers(h)}]

\* destroyPeer: nothing without an entry, else the peer is destroyed and the entry
\* deleted
destroyPeer(h, peerId) ==
  IF ~MapHas(h.peers, peerId) THEN h
  ELSE [h EXCEPT !.live = {l \in @ : l.n # MapGet(h.peers, peerId).peer},
                 !.peers = MapDelete(@, peerId)]

\* a plausible slip: the lookup of an existing entry left out
ensureEntryAlwaysNew(h, peerId, meta, initiator) ==
  [h EXCEPT !.peers = MapSet(@, peerId, [peer |-> h.nextPeer, meta |-> meta,
                                         connected |-> FALSE]),
            !.live = @ \cup {[n |-> h.nextPeer, peerId |-> peerId,
                              initiator |-> initiator]},
            !.nextPeer = @ + 1]

\* ensureEntry: an existing entry only gets the meta merged; else a SimplePeer is
\* constructed with the initiator given and entered under peerId
ensureEntry(h, peerId, meta, initiator) ==
  IF MapHas(h.peers, peerId)
  THEN [h EXCEPT !.peers = MapSet(@, peerId,
                                  [MapGet(h.peers, peerId) EXCEPT !.meta = meta])]
  ELSE [h EXCEPT !.peers = MapSet(@, peerId, [peer |-> h.nextPeer, meta |-> meta,
                                              connected |-> FALSE]),
                 !.live = @ \cup {[n |-> h.nextPeer, peerId |-> peerId,
                                   initiator |-> initiator]},
                 !.nextPeer = @ + 1]

\* the effect of lines 123-176 went past its two early returns: the three socket
\* handlers are registered and its cleanup is pending
HandlersOn(h) == h.enabled /\ h.room # NoRoom /\ h.currentUser

\* the cleanup the previous run of the effect returned, if it returned one
effectCleanup(h) ==
  IF HandlersOn(h) THEN tearDownAll([h EXCEPT !.emitted = <<"p2p-teardown">>])
  ELSE [h EXCEPT !.emitted = <<>>]

\* the body of the effect under the props now in h
effectBody(h) ==
  IF h.room = NoRoom \/ ~h.currentUser THEN tearDownAll(h)
  ELSE IF ~h.enabled THEN tearDownAll([h EXCEPT !.emitted = Append(@, "p2p-teardown")])
  ELSE [h EXCEPT !.emitted = Append(@, "p2p-ready")]

\* handleInit: a p2p-init of another room is ignored
handleInit(h, room, peerId, initiator) ==
  IF room # h.room THEN h ELSE ensureEntry(h, peerId, "init", initiator)

\* handleSignal: no room check; the peer is created as non-initiator if there is none
handleSignal(h, from) == ensureEntry(h, from, "resolved", FALSE)

\* a step of the hook changes nothing but the hook
HookStep(h, handled, peerId, initiator) ==
  /\ useP2P' = [h EXCEPT !.handled = handled, !.peerId = peerId, !.initiator = initiator]
  /\ UNCHANGED <<messages, outbox, inbox, sends, typing, composer, roomVars, joined,
                 ledgerVars, p2pVars, out, last>>

\* the hook's props change (or a callback among the effect's dependencies does): the
\* previous cleanup runs, then the effect
UseP2PEffect(enabled, room, currentUser) ==
  HookStep(effectBody([effectCleanup(useP2P) EXCEPT !.enabled = enabled, !.room = room,
                                                    !.currentUser = currentUser]),
           "effect", NoSocket, FALSE)

\* the socket delivers a p2p-init
UseP2PInit(room, peerId, initiator) ==
  /\ HandlersOn(useP2P)
  /\ useP2P.nextPeer <= MaxPeers
  /\ HookStep(handleInit([useP2P EXCEPT !.emitted = <<>>], room, peerId, initiator),
              "p2p-init", peerId, initiator)

\* the socket delivers a p2p-signal
UseP2PSignal(from) ==
  /\ HandlersOn(useP2P)
  /\ useP2P.nextPeer <= MaxPeers
  /\ HookStep(handleSignal([useP2P EXCEPT !.emitted = <<>>], from),
              "p2p-signal", from, FALSE)

\* the socket delivers a p2p-teardown: handleTeardown
UseP2PTeardown(peerId) ==
  /\ HandlersOn(useP2P)
  /\ HookStep(destroyPeer([useP2P EXCEPT !.emitted = <<>>], peerId),
              "p2p-teardown", peerId, FALSE)

\* the peer of an entry emits 'connect'
PeerConnect(peerId) ==
  /\ MapHas(useP2P.peers, peerId)
  /\ ~MapGet(useP2P.peers, peerId).connected
  /\ HookStep([useP2P EXCEPT !.emitted = <<>>, !.peers = MapSet(@, peerId,
                 [MapGet(useP2P.peers, peerId) EXCEPT !.connected = TRUE])],
              "connect", peerId, FALSE)

\* the peer of an entry fails or its connection closes: it emits 'close' (after
\* 'error') and the cleanup of lines 99-105 deletes the entry
PeerClosed(peerId) ==
  /\ MapHas(useP2P.peers, peerId)
  /\ HookStep(destroyPeer([useP2P EXCEPT !.emitted = <<>>], peerId),
              "close", peerId, FALSE)

NextPeers ==
  \/ \E enabled, currentUser \in BOOLEAN, room \in Rooms \cup {NoRoom} :
        UseP2PEffect(enabled, room, currentUser)
  \/ \E room \in Rooms, peerId \in RemotePeers, initiator \in BOOLEAN :
        UseP2PInit(room, peerId, initiator)
  \/ \E from \in RemotePeers : UseP2PSignal(from)
  \/ \E peerId \in RemotePeers : UseP2PTeardown(peerId)
  \/ \E peerId \in RemotePeers : PeerConnect(peerId)
  \/ \E peerId \in RemotePeers : PeerClosed(peerId)

SpecPeers == InitClientSpec /\ [][NextPeers]_vars

\* one entry and one live SimplePeer at most per remote socket id, and every live
\* SimplePeer is the peer of an entry
OnePeerPerRemote ==
  /\ \A id \in RemotePeers :
        /\ Cardinality({i \in 1..Len(useP2P.peers) : useP2P.peers[i].k = id}) <= 1
        /\ Cardinality({l \in useP2P.live : l.peerId = id}) <= 1
  /\ {l.n : l \in useP2P.live} = EntryPeers(useP2P)

\* with P2P disabled, or no room, or no current user, the table is empty and no
\* SimplePeer is left alive
EmptyWhenOff ==
  ~(useP2P.enabled /\ useP2P.room # NoRoom /\ useP2P.currentUser)
     => useP2P.peers = <<>> /\ useP2P.live = {}

\* the step handled a p2p-init or p2p-signal for a peer that had an entry: the entry
\* holds the same SimplePeer, none was constructed, and the peer's role is the same
ExistingEntryKept ==
  \A id \in RemotePeers :
     (/\ MapHas(useP2P.peers, id)
      /\ useP2P'.handled \in {"p2p-init", "p2p-signal"}
      /\ useP2P'.peerId = id)
       => /\ MapHas(useP2P'.peers, id)
          /\ MapGet(useP2P'.peers, id).peer = MapGet(useP2P.peers, id).peer
          /\ useP2P'.live = useP2P.live
          /\ useP2P'.nextPeer = useP2P.nextPeer

\* C40: the client peer table holds at most one peer per remote socket id: a
\* p2p-init or p2p-signal for a peer that already has an entry never creates a
\* second peer nor changes its initiator role; and after P2P is disabled, or the
\* room or current user becomes unset, every peer has been destroyed and the table
\* is empty.
C40_OnePeerPerRemote ==
  /\ [](OnePeerPerRemote /\ EmptyWhenOff)
  /\ [][ExistingEntryKept]_vars

\* a p2p-init naming the client non-initiator was handled for a peer whose entry
\* holds a SimplePeer constructed as initiator
C40_Witness ==
  /\ useP2P.handled = "p2p-init"
  /\ ~useP2P.initiator
  /\ MapHas(useP2P.peers, useP2P.peerId)
  /\ \E l \in useP2P.live :
        /\ l.n = MapGet(useP2P.peers, useP2P.peerId).peer
        /\ l.initiator

====
